---- MODULE Spec2Model ----
(***************************************************************************)
(* A model of the medical agent:                                           *)
(*   - ConversationMemory (src/src/utils/conversation_memory.py)           *)
(*   - HybridRetriever, BM25Retriever, MedicalVectorStore (src/src/rag)    *)
(*   - MedicalAgentOrchestrator, DiagnosisAgent (src/src/agents) and the   *)
(*     query endpoint (src/src/api/main.py)                                *)
(*   - RateLimiter (src/src/utils/rate_limiter.py)                         *)
(*                                                                         *)
(* Python objects that can be shared between owners (the message lists and *)
(* the context dicts) live in two heaps, lists and dicts, and are named by *)
(* references, so that two dict entries holding the same object are told   *)
(* apart from two entries holding equal objects.  A Python dict is a       *)
(* function on the set of its keys; an Optional value is <<>> for None and *)
(* <<v>> for a value v.                                                    *)
(***************************************************************************)
EXTENDS Integers, Sequences, FiniteSets, TLC

VARIABLES
    conversations,      \* per instance: self.conversations, session_id -> list reference
    patient_contexts,   \* per instance: self.patient_contexts, session_id -> dict reference
    lists,              \* heap of message lists: reference -> sequence of messages
    dicts,              \* heap of context dicts: reference -> dict
    exported,           \* the data dict the caller holds from its last export_session
    clock,              \* the reading datetime.now() gives next
    last,               \* the last call made: operation, arguments and outcome
    sent                \* history: per instance and session, the messages passed to
                        \* add_message since the session was last absent

VARIABLES
    bm25,               \* BM25Retriever.bm25: None, or the BM25Okapi index (its corpus size)
    documents,          \* BM25Retriever.documents
    points,             \* the vector store's collection: point id -> payload
    bm25_results,       \* the lexical result list of the last search or fusion
    vector_results,     \* the vector result list of the last search or fusion
    scores,             \* the scores dict of the last fusion, as its items in insertion order
    hybrid_results,     \* what the last search or fusion returned
    rcall               \* the last call made on the retriever: operation, top_k, outcome

VARIABLES
    state,              \* the OrchestratorState of the process() call, and the node it is at
    response,           \* what the query endpoint answered to the last request
    agent               \* the DiagnosisAgent: the analysis text and the fields taken from it

VARIABLES
    requests,           \* RateLimiter.requests: session_id -> deque of timestamps
    now,                \* the reading time.time() gives
    verdict,            \* what the last is_allowed call returned, and for which session
    admitted            \* history: per session, the times of the calls is_allowed admitted

memVars == <<conversations, patient_contexts, lists, dicts, exported, clock, last, sent>>

retrVars == <<bm25, documents, points, bm25_results, vector_results, scores, hybrid_results, rcall>>

orchVars == <<state, response, agent>>

limiterVars == <<requests, now, verdict, admitted>>

\* all but the variables of the memory, and all but those of the retriever
nonMemVars == <<retrVars, orchVars, limiterVars>>

nonRetrVars == <<memVars, orchVars, limiterVars>>

vars == <<conversations, patient_contexts, lists, dicts, exported, clock, last, sent,
          bm25, documents, points, bm25_results, vector_results, scores, hybrid_results, rcall,
          state, response, agent, requests, now, verdict, admitted>>

----------------------------------------------------------------------------
(* Bounds and input sets *)

MaxClock == 3

\* the longest result list given to the fusion, and the most documents indexed
MaxResults == 3

MaxDocs == 2

MaxTopK == 2

\* the number of chunks of the large corpus
CorpusSize == 12

Mems == {"m1", "m2"}

Sessions == {"s1", "s2"}

Roles == {"user", "assistant"}

None == <<>>

Some(v) == <<v>>

EmptyDict == [k \in {} |-> 0]

\* the metadata dicts the callers pass
MetaSymptoms == [symptoms |-> <<"fever">>]

MetaSymptomsMeds == [symptoms |-> <<"cough", "fever">>, medications |-> <<"aspirin", "aspirin">>]

\* what the orchestrator passes for a qa or research reply: nothing for the context
MetaQA == [query_type |-> "qa"]

\* what the orchestrator passes for a diagnosis reply (confidence in percent)
MetaDiagnosis == [query_type |-> "diagnosis", diagnosis |-> "flu", confidence |-> 85]

\* a reply that names a symptom again and gives a diagnosis without a confidence
MetaCase == [symptoms |-> <<"fever">>, diagnosis |-> "flu", patient_info |-> <<<<"age", "40">>>>]

MetaInfo == [patient_info |-> <<<<"age", "41">>, <<"sex", "F">>>>, medications |-> <<"ibuprofen">>]

----------------------------------------------------------------------------
(* Python helpers *)

Put(d, k, v) == [x \in DOMAIN d \cup {k} |-> IF x = k THEN v ELSE d[x]]

Del(d, k) == [x \in DOMAIN d \ {k} |-> d[x]]

\* bool(metadata): None and {} are falsy
Truthy(metadata) == metadata # None /\ DOMAIN metadata[1] # {}

\* metadata or {}
OrEmpty(metadata) == IF Truthy(metadata) THEN metadata[1] ELSE EmptyDict

Contains(list, v) == \E i \in 1..Len(list) : list[i] = v

\* seq[start:] with Python's rule for a negative or too large start
SliceFrom(seq, start) ==
    LET n == Len(seq)
        lo == IF start < 0 THEN (IF n + start < 0 THEN 0 ELSE n + start)
              ELSE (IF start > n THEN n ELSE start)
    IN  [i \in 1..(n - lo) |-> seq[lo + i]]

\* a reference no object of heap h has
NewRef(h) == CHOOSE r \in 1..(Cardinality(DOMAIN h) + 1) : r \notin DOMAIN h

\* The holders of references, in a fixed order: the sessions of the instances, then
\* the caller's exported data.  An object is named by the first holder that holds
\* it, so that a state does not depend on the order in which objects were made,
\* and an object no holder holds is freed.
Slots == <<<<"m1", "s1">>, <<"m1", "s2">>, <<"m2", "s1">>, <<"m2", "s2">>>>

Holders == 1..(Len(Slots) + 1)

Held(d, e, i) ==
    IF i > Len(Slots) THEN e
    ELSE IF Slots[i][2] \in DOMAIN d[Slots[i][1]] THEN d[Slots[i][1]][Slots[i][2]]
    ELSE 0

Name(d, e, r) == CHOOSE i \in Holders : Held(d, e, i) = r /\ \A j \in 1..(i - 1) : Held(d, e, j) # r

NamedStore(d, e) == [m \in Mems |-> [s \in DOMAIN d[m] |-> Name(d, e, d[m][s])]]

NamedHeap(h, d, e) ==
    [n \in {i \in Holders : Held(d, e, i) # 0 /\ Name(d, e, Held(d, e, i)) = i} |-> h[Held(d, e, n)]]

----------------------------------------------------------------------------
(* ConversationMemory *)

\* the context dict create_session builds at time t
NewContext(t) ==
    [patient_info |-> <<>>,
     symptoms_mentioned |-> <<>>,
     diagnoses_received |-> <<>>,
     medications_mentioned |-> <<>>,
     created_at |-> t]

\* the message dict add_message builds at time t
Message(t, role, content, metadata) ==
    [timestamp |-> t, role |-> role, content |-> content, metadata |-> OrEmpty(metadata)]

\* dict.update on the patient info, a dict kept as its items in insertion order:
\* a key already there keeps its place and takes the new value
RECURSIVE DictUpdate(_, _)
DictUpdate(info, items) ==
    IF items = <<>> THEN info
    ELSE LET k == Head(items)[1]
             v == Head(items)[2]
             one == IF \E i \in 1..Len(info) : info[i][1] = k
                    THEN [i \in 1..Len(info) |-> IF info[i][1] = k THEN <<k, v>> ELSE info[i]]
                    ELSE Append(info, <<k, v>>)
         IN  DictUpdate(one, Tail(items))

\* a slip: every mention is appended
AppendAll(list, items) == list \o items

\* for x in items: if x not in list: list.append(x)
RECURSIVE AppendNew(_, _)
AppendNew(list, items) ==
    IF items = <<>> THEN list
    ELSE AppendNew(IF Contains(list, Head(items)) THEN list ELSE Append(list, Head(items)),
                   Tail(items))

\* the diagnosis record _update_patient_context appends at time t
DiagnosisRecord(metadata, t) ==
    [diagnosis |-> metadata["diagnosis"],
     confidence |-> IF "confidence" \in DOMAIN metadata THEN metadata["confidence"] ELSE 0,
     timestamp |-> t]

Ok(ctx) == [ctx |-> ctx, raised |-> "none"]

KeyError(ctx) == [ctx |-> ctx, raised |-> "KeyError"]

\* what the block of metadata key `key` makes of the value old of its category
UpdatedValue(old, metadata, key, t) ==
    CASE key = "patient_info" -> DictUpdate(old, metadata["patient_info"])
      [] key = "symptoms" -> AppendNew(old, metadata["symptoms"])
      [] key = "diagnosis" -> Append(old, DiagnosisRecord(metadata, t))
      [] key = "medications" -> AppendNew(old, metadata["medications"])

\* one `if key in metadata:` block of _update_patient_context on context dict ctx:
\* the block reads ctx[field] when `reads` holds, which raises KeyError if it is missing
UpdateField(r, metadata, key, field, reads, t) ==
    IF r.raised # "none" \/ key \notin DOMAIN metadata \/ ~reads THEN r
    ELSE IF field \notin DOMAIN r.ctx THEN KeyError(r.ctx)
    ELSE Ok([r.ctx EXCEPT ![field] = UpdatedValue(@, metadata, key, t)])

\* _update_patient_context on the context dict ctx: the dict it leaves and what it raised
UpdatePatientContext(ctx, metadata, t) ==
    LET r1 == UpdateField(Ok(ctx), metadata, "patient_info", "patient_info", TRUE, t)
        r2 == UpdateField(r1, metadata, "symptoms", "symptoms_mentioned",
                          "symptoms" \in DOMAIN metadata /\ metadata["symptoms"] # <<>>, t)
        r3 == UpdateField(r2, metadata, "diagnosis", "diagnoses_received", TRUE, t)
        r4 == UpdateField(r3, metadata, "medications", "medications_mentioned",
                          "medications" \in DOMAIN metadata /\ metadata["medications"] # <<>>,
                          t)
    IN  r4

\* the state the instances and the caller are left in: dict entries convs and ctxs,
\* heaps ls and ds, exported data exp
Commit(convs, ctxs, ls, ds, exp) ==
    LET el == IF exp = None THEN 0 ELSE exp[1].conversation
        ed == IF exp = None THEN 0 ELSE exp[1].patient_context
    IN  /\ conversations' = NamedStore(convs, el)
        /\ patient_contexts' = NamedStore(ctxs, ed)
        /\ lists' = NamedHeap(ls, convs, el)
        /\ dicts' = NamedHeap(ds, ctxs, ed)
        /\ exported' = IF exp = None THEN None
                       ELSE Some([session_id |-> exp[1].session_id,
                                  conversation |-> Name(convs, el, el),
                                  patient_context |-> Name(ctxs, ed, ed)])

Call(op, m, s, role, content, metadata, raised) ==
    [op |-> op, mem |-> m, session |-> s, role |-> role, content |-> content,
     metadata |-> metadata, raised |-> raised]

\* a slip: the message is put at the front of the log
PrependMessage(messages, message) == <<message>> \o messages

\* self.conversations[session_id].append(message)
AppendMessage(messages, message) == Append(messages, message)

\* a slip: the role is not looked at
UpdatesAnyRole(role, metadata) == Truthy(metadata)

\* if role == 'assistant' and metadata
Updates(role, metadata) == role = "assistant" /\ Truthy(metadata)

\* the store of instance m after create_session(s) at time t
Created(m, s, t) ==
    IF s \notin DOMAIN conversations[m]
    THEN LET lr == NewRef(lists)
             dr == NewRef(dicts)
         IN  [conv |-> Put(conversations[m], s, lr),
              ctxs |-> Put(patient_contexts[m], s, dr),
              lists |-> Put(lists, lr, <<>>),
              dicts |-> Put(dicts, dr, NewContext(t)),
              read |-> TRUE]
    ELSE [conv |-> conversations[m], ctxs |-> patient_contexts[m],
          lists |-> lists, dicts |-> dicts, read |-> FALSE]

CreateSession(m, s) ==
    LET c == Created(m, s, clock)
    IN  /\ c.read => clock < MaxClock
        /\ Commit([conversations EXCEPT ![m] = c.conv],
                  [patient_contexts EXCEPT ![m] = c.ctxs], c.lists, c.dicts, exported)
        /\ clock' = IF c.read THEN clock + 1 ELSE clock
        /\ last' = Call("create_session", m, s, "", "", None, "none")
        /\ UNCHANGED sent

\* add_message, as long as the clock reads less than horizon
AddMessageBefore(horizon, m, s, role, content, metadata) ==
    LET c == Created(m, s, clock)
        message == Message(clock, role, content, metadata)
        lists2 == [c.lists EXCEPT ![c.conv[s]] = AppendMessage(@, message)]
        updates == Updates(role, metadata)
        found == s \in DOMAIN c.ctxs
        r == IF ~updates THEN Ok(EmptyDict)
             ELSE IF ~found THEN KeyError(EmptyDict)
             ELSE UpdatePatientContext(c.dicts[c.ctxs[s]], metadata[1], clock)
        dicts2 == IF updates /\ found THEN [c.dicts EXCEPT ![c.ctxs[s]] = r.ctx] ELSE c.dicts
    IN  /\ clock < horizon
        /\ Commit([conversations EXCEPT ![m] = c.conv],
                  [patient_contexts EXCEPT ![m] = c.ctxs], lists2, dicts2, exported)
        /\ clock' = clock + 1
        /\ last' = Call("add_message", m, s, role, content, metadata, r.raised)
        /\ sent' = [sent EXCEPT ![m][s] =
                        Append(@, [timestamp |-> clock, role |-> role, content |-> content,
                                   metadata |-> IF metadata = None THEN EmptyDict
                                                ELSE metadata[1]])]

AddMessage(m, s, role, content, metadata) ==
    AddMessageBefore(MaxClock, m, s, role, content, metadata)

\* if last_n: return messages[-last_n:] / return messages
LastN(messages, last_n) ==
    IF last_n # None /\ last_n[1] # 0 THEN SliceFrom(messages, -last_n[1]) ELSE messages

get_conversation(m, s, last_n) ==
    IF s \notin DOMAIN conversations[m] THEN <<>>
    ELSE LastN(lists[conversations[m][s]], last_n)

get_patient_context(m, s) ==
    IF s \in DOMAIN patient_contexts[m] THEN dicts[patient_contexts[m][s]] ELSE EmptyDict

NoPatientContext == <<<<"No patient context available.", <<>>>>>>

\* a slip: one sentinel for both situations
SameSentinel == <<<<"No patient context available.", <<>>>>>>

NoContext == <<<<"No context available.", <<>>>>>>

\* context.get(key) is truthy
Has(context, key) == key \in DOMAIN context /\ context[key] # <<>>

\* [f'{k}: {v}' for k, v in info.items()]
Flatten(info) == [i \in 1..Len(info) |-> <<info[i][1], ": ", info[i][2]>>]

RECURSIVE Concat(_)
Concat(seqs) == IF seqs = <<>> THEN <<>> ELSE Head(seqs) \o Concat(Tail(seqs))

\* the summary, a sequence of lines, each line a label and the items joined after it
get_context_summary(m, s) ==
    LET context == get_patient_context(m, s)
        info == IF Has(context, "patient_info")
                THEN <<<<"Patient Information: ", Concat(Flatten(context["patient_info"]))>>>>
                ELSE <<>>
        symptoms == IF Has(context, "symptoms_mentioned")
                    THEN <<<<"Symptoms mentioned: ", context["symptoms_mentioned"]>>>>
                    ELSE <<>>
        diagnoses == IF Has(context, "diagnoses_received")
                     THEN <<<<"Previous diagnoses: ",
                              [i \in 1..Len(context["diagnoses_received"]) |->
                                   context["diagnoses_received"][i].diagnosis]>>>>
                     ELSE <<>>
        meds == IF Has(context, "medications_mentioned")
                THEN <<<<"Medications discussed: ", context["medications_mentioned"]>>>>
                ELSE <<>>
        summary_parts == info \o symptoms \o diagnoses \o meds
    IN  IF DOMAIN context = {} THEN NoPatientContext
        ELSE IF summary_parts # <<>> THEN summary_parts
        ELSE NoContext

\* a slip: every log is dropped
ClearedEverything(convs, s) == EmptyDict

\* if session_id in self.conversations: del self.conversations[session_id]
ClearedConversations(convs, s) == IF s \in DOMAIN convs THEN Del(convs, s) ELSE convs

\* a slip: the context aggregate is left behind
KeptContexts(ctxs, s) == ctxs

\* if session_id in self.patient_contexts: del self.patient_contexts[session_id]
ClearedContexts(ctxs, s) == IF s \in DOMAIN ctxs THEN Del(ctxs, s) ELSE ctxs

ClearSession(m, s) ==
    /\ Commit([conversations EXCEPT ![m] = ClearedConversations(@, s)],
              [patient_contexts EXCEPT ![m] = ClearedContexts(@, s)], lists, dicts, exported)
    /\ last' = Call("clear_session", m, s, "", "", None, "none")
    /\ sent' = [sent EXCEPT ![m][s] = <<>>]
    /\ UNCHANGED clock

\* export_session: the data dict holds the session's own list and dict, or a new
\* empty list and a new empty dict for a session that is absent
ExportSession(m, s) ==
    LET hasList == s \in DOMAIN conversations[m]
        hasDict == s \in DOMAIN patient_contexts[m]
        lr == IF hasList THEN conversations[m][s] ELSE NewRef(lists)
        dr == IF hasDict THEN patient_contexts[m][s] ELSE NewRef(dicts)
    IN  /\ Commit(conversations, patient_contexts,
                  IF hasList THEN lists ELSE Put(lists, lr, <<>>),
                  IF hasDict THEN dicts ELSE Put(dicts, dr, EmptyDict),
                  Some([session_id |-> s, conversation |-> lr, patient_context |-> dr]))
        /\ last' = Call("export_session", m, s, "", "", None, "none")
        /\ UNCHANGED <<clock, sent>>

\* a slip: the imported log replaces the logs the instance has
ReplacedConversations(convs, data) == Put(EmptyDict, data.session_id, data.conversation)

\* self.conversations[session_id] = data['conversation']
ImportedConversations(convs, data) == Put(convs, data.session_id, data.conversation)

\* a slip: the context aggregate is not restored
NotImportedContexts(ctxs, data) == ctxs

\* self.patient_contexts[session_id] = data['patient_context']
ImportedContexts(ctxs, data) == Put(ctxs, data.session_id, data.patient_context)

\* import_session(data) with the data the caller holds
ImportSession(m) ==
    /\ exported # None
    /\ LET data == exported[1]
           session_id == data.session_id
       IN  /\ Commit([conversations EXCEPT ![m] = ImportedConversations(@, data)],
                     [patient_contexts EXCEPT ![m] = ImportedContexts(@, data)],
                     lists, dicts, exported)
           /\ last' = Call("import_session", m, session_id, "", "", None, "none")
    /\ UNCHANGED <<clock, sent>>

\* the calls that only read: get_conversation, get_patient_context and
\* get_context_summary look the session up with dict.get and store nothing
Readers == {"get_conversation", "get_patient_context", "get_context_summary"}

Read(op, m, s) ==
    /\ op \in Readers
    /\ last' = Call(op, m, s, "", "", None, "none")
    /\ UNCHANGED <<conversations, patient_contexts, lists, dicts, exported, clock, sent>>

InitMemory ==
    /\ conversations = [m \in Mems |-> EmptyDict]
    /\ patient_contexts = [m \in Mems |-> EmptyDict]
    /\ lists = EmptyDict
    /\ dicts = EmptyDict
    /\ exported = None
    /\ clock = 0
    /\ last = Call("init", "", "", "", "", None, "none")
    /\ sent = [m \in Mems |-> [s \in Sessions |-> <<>>]]

----------------------------------------------------------------------------
(* Documents *)

\* chunks as DocumentProcessor.process_document makes them
DocA == [text |-> "a", source |-> "f1", chunk_id |-> 0, total_chunks |-> 4]

DocB == [text |-> "b", source |-> "f1", chunk_id |-> 1, total_chunks |-> 4]

DocC == [text |-> "c", source |-> "f1", chunk_id |-> 2, total_chunks |-> 4]

DocD == [text |-> "d", source |-> "f1", chunk_id |-> 3, total_chunks |-> 4]

\* the first chunk of another file
DocE == [text |-> "e", source |-> "f2", chunk_id |-> 0, total_chunks |-> 1]

\* a document that was not made by the processor and has no chunk_id
DocF == [text |-> "f", source |-> "raw"]

Docs == <<DocA, DocB, DocC, DocD, DocE, DocF>>

\* the sequences without repetition of at most n elements of the set S
RECURSIVE Arrangements(_, _)
Arrangements(S, n) ==
    IF n = 0 THEN {<<>>}
    ELSE LET shorter == Arrangements(S, n - 1)
             longest == {r \in shorter : Len(r) = n - 1}
         IN  shorter \cup UNION {{Append(q, x) : x \in S \ {q[i] : i \in 1..Len(q)}} :
                                     q \in longest}

----------------------------------------------------------------------------
(* BM25Retriever and MedicalVectorStore *)

\* the depth of both sub-searches and of the fused list
SearchDepth == 10

FusionDepth == 10

\* the smoothing constant of the fusion
RRF_K == 60

\* the worst rank a result has in this model
MaxRank == IF MaxResults > MaxDocs THEN MaxResults ELSE MaxDocs

\* seq[:n] for n >= 0
Prefix(seq, n) == [i \in 1..(IF n < Len(seq) THEN n ELSE Len(seq)) |-> seq[i]]

\* inserts index i into the index sequence idx, kept by score descending:
\* after every index whose score is not smaller (a stable sort, reverse=True)
RECURSIVE InsertDesc(_, _, _)
InsertDesc(idx, i, score) ==
    IF idx = <<>> THEN <<i>>
    ELSE IF score[Head(idx)] >= score[i] THEN <<Head(idx)>> \o InsertDesc(Tail(idx), i, score)
    ELSE <<i>> \o idx

\* sorted(range(len(scores)), key=lambda i: scores[i], reverse=True)
RECURSIVE ArgSortDesc(_, _)
ArgSortDesc(n, score) ==
    IF n = 0 THEN <<>> ELSE InsertDesc(ArgSortDesc(n - 1, score), n, score)

\* BM25Retriever.search with the scores BM25Okapi.get_scores gives for the query:
\* the results, or IndexError when the index is larger than self.documents
BM25Search(score, top_k) ==
    IF bm25 = None THEN [results |-> <<>>, raised |-> "none"]
    ELSE LET top_indices == Prefix(ArgSortDesc(bm25[1], score), top_k)
         IN  IF \E i \in 1..Len(top_indices) : top_indices[i] > Len(documents)
             THEN [results |-> <<>>, raised |-> "IndexError"]
             ELSE [results |-> [i \in 1..Len(top_indices) |->
                                    [document |-> documents[top_indices[i]],
                                     score |-> score[top_indices[i]],
                                     rank |-> i]],
                   raised |-> "none"]

\* MedicalVectorStore.search: the collection's points in the order of similarity
\* the store gives for the query vector, at most limit of them
VectorSearch(order, limit) ==
    Prefix([i \in 1..Len(order) |-> [id |-> order[i], payload |-> points[order[i]]]], limit)

\* MedicalVectorStore.add_documents: point i (from 0) gets document i, as far as
\* there are vectors; a point that has the id of an old one replaces it
AddDocuments(docs, nvectors) ==
    LET n == IF nvectors < Len(docs) THEN nvectors ELSE Len(docs)
    IN  [id \in DOMAIN points \cup 0..(n - 1) |-> IF id < n THEN docs[id + 1] ELSE points[id]]

----------------------------------------------------------------------------
(* HybridRetriever *)

\* A score is kept as the number of ScoreUnit-ths it is.  ScoreUnit is a common
\* multiple of k + rank for every rank up to MaxRank, whose contributions are exact;
\* the contribution of a deeper rank is rounded down to a ScoreUnit-th.  For the
\* ranks up to SearchDepth, two sums of at most one contribution per list that
\* differ, differ by more than 1/200000, far more than the rounding.
RECURSIVE Gcd(_, _)
Gcd(a, b) == IF b = 0 THEN a ELSE Gcd(b, a % b)

RECURSIVE Lcm(_, _)
Lcm(from, to) ==
    IF from > to THEN 1
    ELSE LET rest == Lcm(from + 1, to) IN (from \div Gcd(from, rest)) * rest

\* the range of the scores of the model
ScoreRange == 2000000000

ExactUnit == Lcm(RRF_K + 1, RRF_K + MaxRank)

ScoreUnit == ExactUnit * (ScoreRange \div ExactUnit)

\* the key of a document: its chunk_id, or a string
ChunkKey(doc) == <<"chunk_id", doc["chunk_id"], EmptyDict>>

\* str(result["document"])
ReprKey(doc) == <<"str(document)", 0, doc>>

\* str(result.id)
IdKey(id) == <<"str(id)", id, EmptyDict>>

\* result["document"].get("chunk_id", str(result["document"]))
BM25Key(result) ==
    IF "chunk_id" \in DOMAIN result.document THEN ChunkKey(result.document)
    ELSE ReprKey(result.document)

\* result.payload.get("chunk_id", str(result.id))
VectorKey(result) ==
    IF "chunk_id" \in DOMAIN result.payload THEN ChunkKey(result.payload)
    ELSE IdKey(result.id)

\* 1 / (k + rank)
Contribution(k, rank) == ScoreUnit \div (k + rank)

\* a slip: the contribution replaces the score the key has
SetScore(items, doc_id, c) ==
    IF \E i \in 1..Len(items) : items[i][1] = doc_id
    THEN [i \in 1..Len(items) |-> IF items[i][1] = doc_id THEN <<doc_id, c>> ELSE items[i]]
    ELSE Append(items, <<doc_id, c>>)

\* scores[doc_id] = scores.get(doc_id, 0) + c, on the items of the dict
AddScore(items, doc_id, c) ==
    IF \E i \in 1..Len(items) : items[i][1] = doc_id
    THEN [i \in 1..Len(items) |->
              IF items[i][1] = doc_id THEN <<doc_id, items[i][2] + c>> ELSE items[i]]
    ELSE Append(items, <<doc_id, 0 + c>>)

\* for rank, result in enumerate(results, 1): ..., over the results from position
\* rank on; keys[rank] is the doc_id of the result at rank
RECURSIVE ScoreList(_, _, _, _)
ScoreList(items, keys, rank, k) ==
    IF rank > Len(keys) THEN items
    ELSE ScoreList(AddScore(items, keys[rank], Contribution(k, rank)), keys, rank + 1, k)

\* the scores dict after both loops
Scores(lexical, vector, k) ==
    ScoreList(ScoreList(<<>>, [i \in 1..Len(lexical) |-> BM25Key(lexical[i])], 1, k),
              [i \in 1..Len(vector) |-> VectorKey(vector[i])], 1, k)

\* inserts an item after every item whose score is not smaller
RECURSIVE InsertItem(_, _)
InsertItem(sorted, item) ==
    IF sorted = <<>> THEN <<item>>
    ELSE IF Head(sorted)[2] >= item[2] THEN <<Head(sorted)>> \o InsertItem(Tail(sorted), item)
    ELSE <<item>> \o sorted

\* a slip: the items are left in insertion order
Unsorted(items) == items

\* sorted(scores.items(), key=lambda x: x[1], reverse=True)
RECURSIVE SortedDocs(_)
SortedDocs(items) ==
    IF items = <<>> THEN <<>>
    ELSE InsertItem(SortedDocs(SubSeq(items, 1, Len(items) - 1)), items[Len(items)])

\* all_docs[doc_id]: the payload of the last vector result with the key, else the
\* document of the last lexical result with it
AllDocs(lexical, vector, doc_id) ==
    LET vs == {i \in 1..Len(vector) : VectorKey(vector[i]) = doc_id}
        ls == {i \in 1..Len(lexical) : BM25Key(lexical[i]) = doc_id}
        Max(S) == CHOOSE x \in S : \A y \in S : y <= x
    IN  IF vs # {} THEN Some(vector[Max(vs)].payload)
        ELSE IF ls # {} THEN Some(lexical[Max(ls)].document)
        ELSE None

\* the results list built from sorted_docs[:10]
RECURSIVE Results(_, _, _, _)
Results(results, sorted_docs, lexical, vector) ==
    IF sorted_docs = <<>> THEN results
    ELSE LET doc_id == Head(sorted_docs)[1]
             doc == AllDocs(lexical, vector, doc_id)
         IN  Results(IF doc # None
                     THEN Append(results, [document |-> doc[1], score |-> Head(sorted_docs)[2],
                                           rank |-> Len(results) + 1])
                     ELSE results,
                     Tail(sorted_docs), lexical, vector)

reciprocal_rank_fusion(lexical, vector, k) ==
    Results(<<>>, Prefix(SortedDocs(Scores(lexical, vector, k)), FusionDepth), lexical, vector)

\* a slip: the fused list is returned whole
NotTruncated(results, top_k) == results

\* hybrid_results[:top_k] for top_k >= 0
Truncated(results, top_k) == Prefix(results, top_k)

RCall(op, top_k, raised) == [op |-> op, top_k |-> top_k, raised |-> raised]

\* reciprocal_rank_fusion called on two result lists
Fuse ==
    /\ rcall.op = "input"
    /\ scores' = Scores(bm25_results, vector_results, RRF_K)
    /\ hybrid_results' = reciprocal_rank_fusion(bm25_results, vector_results, RRF_K)
    /\ rcall' = RCall("reciprocal_rank_fusion", 0, "none")
    /\ UNCHANGED <<bm25, documents, points, bm25_results, vector_results>>

\* HybridRetriever.index_documents: BM25Okapi raises ZeroDivisionError on an empty
\* corpus, after self.documents is set and before the vector store is reached.
\* The call returns nothing: what an earlier search returned is gone.
IndexDocuments(docs, nvectors) ==
    /\ documents' = docs
    /\ IF docs = <<>>
       THEN /\ rcall' = RCall("index_documents", 0, "ZeroDivisionError")
            /\ UNCHANGED <<bm25, points>>
       ELSE /\ bm25' = Some(Len(docs))
            /\ points' = AddDocuments(docs, nvectors)
            /\ rcall' = RCall("index_documents", 0, "none")
    /\ bm25_results' = <<>>
    /\ vector_results' = <<>>
    /\ scores' = <<>>
    /\ hybrid_results' = <<>>

\* a slip: a failure of a step is swallowed
Swallowed(lexical, embedding, store) == "none"

\* what search raises: the error of the first step that fails, of bm25.search,
\* embedder.embed_query and vector_store.search in this order; no step is guarded
Raised(lexical, embedding, store) ==
    IF lexical # "none" THEN lexical
    ELSE IF embedding # "none" THEN embedding
    ELSE store

\* HybridRetriever.search, for a query to which BM25 gives the scores `score` and
\* the vector store the order `order` of its points, when the embedding call and the
\* vector store end as `embedding` and `store` say ("none": without error)
SearchUnder(score, order, top_k, embedding, store) ==
    LET lexical == BM25Search(score, SearchDepth)
        vector == VectorSearch(order, SearchDepth)
        raised == Raised(lexical.raised, embedding, store)
    IN  /\ bm25_results' = lexical.results
        /\ IF raised # "none"
           THEN /\ rcall' = RCall("search", top_k, raised)
                /\ vector_results' = <<>>
                /\ scores' = <<>>
                /\ hybrid_results' = <<>>
           ELSE /\ vector_results' = vector
                /\ scores' = Scores(lexical.results, vector, RRF_K)
                /\ hybrid_results' =
                       Truncated(reciprocal_rank_fusion(lexical.results, vector, RRF_K), top_k)
                /\ rcall' = RCall("search", top_k, "none")
        /\ UNCHANGED <<bm25, documents, points>>

\* HybridRetriever.search when the embedding call and the vector store work
Search(score, order, top_k) == SearchUnder(score, order, top_k, "none", "none")

InitRetriever ==
    /\ bm25 = None
    /\ documents = <<>>
    /\ points = EmptyDict
    /\ bm25_results = <<>>
    /\ vector_results = <<>>
    /\ scores = <<>>
    /\ hybrid_results = <<>>
    /\ rcall = RCall("init", 0, "none")

----------------------------------------------------------------------------
(* Text *)

\* A Python str is a sequence of tokens: the words, markers and separators the
\* code looks for, each one piece of text.  "" is <<>>.
Whitespace == {" ", "\n"}

\* the characters of str.lstrip("1234567890.*- "), as the tokens made of them only
LeadChars == {" ", "1.", "2.", "5.", "**", "-", "1990"}

\* what lstrip leaves of a token that only starts with such characters
LeadCut == [t \in {"95%", "85%", "2019-nCoV"} |->
                CASE t = "95%" -> "%" [] t = "85%" -> "%" [] t = "2019-nCoV" -> "nCoV"]

\* str.upper and str.lower, token by token
UpperOf(t) ==
    CASE t = "diagnosis" -> "DIAGNOSIS"
      [] t = "Research" -> "RESEARCH"
      [] t = "qa" -> "QA"
      [] t = "unsure" -> "UNSURE"
      [] OTHER -> t

LowerOf(t) ==
    CASE t = "High" -> "high"
      [] t = "Medium" -> "medium"
      [] t = "LOW" -> "low"
      [] t = "Unclear" -> "unclear"
      [] OTHER -> t

Upper(text) == [i \in 1..Len(text) |-> UpperOf(text[i])]

Lower(text) == [i \in 1..Len(text) |-> LowerOf(text[i])]

\* the tokens a piece of text is found inside of, other than itself
Parts == {<<"95", "95%">>, <<"85", "85%">>, <<"90", "1990">>, <<"low", "below">>}

\* sub in text
In(sub, text) == \E i \in 1..Len(text) : text[i] = sub \/ <<sub, text[i]>> \in Parts

RECURSIVE LStrip(_)
LStrip(text) ==
    IF text # <<>> /\ Head(text) \in Whitespace THEN LStrip(Tail(text)) ELSE text

Reverse(text) == [i \in 1..Len(text) |-> text[Len(text) + 1 - i]]

\* str.strip()
Strip(text) == Reverse(LStrip(Reverse(LStrip(text))))

\* str.lstrip("1234567890.*- ")
RECURSIVE LStripChars(_)
LStripChars(text) ==
    IF text = <<>> THEN <<>>
    ELSE IF Head(text) \in LeadChars THEN LStripChars(Tail(text))
    ELSE IF Head(text) \in DOMAIN LeadCut THEN <<LeadCut[Head(text)]>> \o Tail(text)
    ELSE text

\* where sep, a sequence of tokens, first starts in text; 0 if nowhere
Find(text, sep) ==
    LET at == {i \in 1..(Len(text) - Len(sep) + 1) :
                   \A j \in 1..Len(sep) : text[i + j - 1] = sep[j]}
    IN  IF at = {} THEN 0 ELSE CHOOSE i \in at : \A j \in at : i <= j

\* text.split(sep)[0]
SplitFirst(text, sep) ==
    IF Find(text, sep) = 0 THEN text ELSE SubSeq(text, 1, Find(text, sep) - 1)

\* text.split(sep)[1], for a sep that is in text
SplitSecond(text, sep) ==
    SplitFirst(SubSeq(text, Find(text, sep) + Len(sep), Len(text)), sep)

\* the number of characters of a token
Size(t) ==
    CASE t = "a case history of 250 characters" -> 250
      [] t = "a case history of 250 characters, cut at 200" -> 200
      [] t \in Whitespace \/ t = "-" -> 1
      [] OTHER -> 20    \* no other token is longer

\* what is left of a token cut to its first n characters
Cut(t, n) ==
    IF t = "a case history of 250 characters" /\ n = 200
    THEN <<"a case history of 250 characters, cut at 200">>
    ELSE <<"a cut token">>

\* text[:n]
RECURSIVE Clip(_, _)
Clip(text, n) ==
    IF text = <<>> \/ n <= 0 THEN <<>>
    ELSE IF Size(Head(text)) <= n THEN <<Head(text)>> \o Clip(Tail(text), n - Size(Head(text)))
    ELSE Cut(Head(text), n)

----------------------------------------------------------------------------
(* DiagnosisAgent *)

\* the top_k of the agents' searches
AgentTopK == 5

\* the length a diagnosis without marker is cut to
DiagnosisWidth == 200

\* the confidences, in percent
ConfidenceHighest == 90

ConfidenceHigh == 85

ConfidenceMedium == 70

ConfidenceLow == 50

\* the marker a section is split at: its bold form if the analysis has it
Marker(analysis, name) ==
    IF In(name \o "**:", analysis) THEN name \o "**:" ELSE name \o ":"

HasMarker(analysis, name) == In(name \o ":", analysis) \/ In(name \o "**:", analysis)

\* _extract_diagnosis.  No statement of its try block raises on a str, and the
\* content of the model's reply is a str: the except branch is not reached.
_extract_diagnosis(analysis) ==
    IF HasMarker(analysis, "PRIMARY DIAGNOSIS")
    THEN LET diagnosis_section ==
                 SplitSecond(analysis, <<Marker(analysis, "PRIMARY DIAGNOSIS")>>)
             diagnosis == Strip(SplitFirst(diagnosis_section, <<"\n">>))
         IN  LStripChars(diagnosis)
    ELSE Clip(analysis, DiagnosisWidth)

\* the if/elif chain of _extract_confidence on the marker's line, and the
\* return 0.70 that is reached when no branch returns
Level(conf_text) ==
    IF In("90", conf_text) \/ In("95", conf_text) THEN ConfidenceHighest
    ELSE IF In("high", conf_text) \/ In("80", conf_text) \/ In("85", conf_text)
    THEN ConfidenceHigh
    ELSE IF In("medium", conf_text) \/ In("70", conf_text) \/ In("75", conf_text)
    THEN ConfidenceMedium
    ELSE IF In("low", conf_text) \/ In("50", conf_text) \/ In("60", conf_text)
    THEN ConfidenceLow
    ELSE ConfidenceMedium

\* _extract_confidence; as in _extract_diagnosis, the except branch (0.50) is not
\* reached on a str
_extract_confidence(analysis) ==
    IF HasMarker(analysis, "CONFIDENCE LEVEL")
    THEN LET conf_section == SplitSecond(analysis, <<Marker(analysis, "CONFIDENCE LEVEL")>>)
             conf_text == Lower(SplitFirst(conf_section, <<"\n">>))
         IN  Level(conf_text)
    ELSE ConfidenceMedium

NoRecommendations == <<"Consult with healthcare provider for further evaluation">>

\* _extract_recommendations
_extract_recommendations(analysis) ==
    IF HasMarker(analysis, "RECOMMENDED NEXT STEPS")
    THEN LET rec_section ==
                 SplitSecond(analysis, <<Marker(analysis, "RECOMMENDED NEXT STEPS")>>)
             rec_text == Strip(rec_section)
         IN  LStripChars(SplitFirst(rec_text, <<"\n", "\n">>))
    ELSE NoRecommendations

\* the agent before an analysis is there
NoAnalysis == [step |-> "none", analysis |-> <<>>, diagnosis |-> <<>>, confidence |-> 0,
               recommendations |-> <<>>]

\* _analyze_symptoms from the reply of the model on: the three fields are parsed
Analyzed(analysis) ==
    [step |-> "analyzed", analysis |-> analysis,
     diagnosis |-> _extract_diagnosis(analysis),
     confidence |-> _extract_confidence(analysis),
     recommendations |-> _extract_recommendations(analysis)]

AnalyzeSymptoms ==
    /\ agent.step = "reply"
    /\ agent' = Analyzed(agent.analysis)
    /\ UNCHANGED <<state, response>>

----------------------------------------------------------------------------
(* MedicalAgentOrchestrator and the query endpoint *)

\* the most process() calls that complete
MaxQueries == 3

\* two add_message calls for each
Horizon == 2 * MaxQueries

\* how a call of the language model, of PubMed or of a retriever step may end
LLMOutcomes == {"none", "APIError"}

\* no call is being processed
NoState ==
    [node |-> "none", user_query |-> <<>>, session_id |-> "", query_type |-> "",
     classification |-> <<>>, context_note |-> None, agent_response |-> EmptyDict,
     final_response |-> <<>>, patient_context |-> <<>>, ran |-> ""]

\* process(): the initial state, handed to the entry point of the graph
InitialState(user_query, session_id) ==
    [NoState EXCEPT !.node = "route", !.user_query = user_query, !.session_id = session_id]

HTTPException(status_code, detail) == [status_code |-> status_code, detail |-> detail]

\* a slip: the failure is not reported
Unreported(raised) ==
    /\ state' = [state EXCEPT !.node = "failed"]
    /\ response' = None

\* the except clause of process_query
Failed(raised) ==
    /\ state' = [state EXCEPT !.node = "failed"]
    /\ response' = Some(HTTPException(500, <<"Query processing failed: ", raised>>))

\* process_query receives a request and process() starts the graph; one request is
\* processed at a time
ProcessQuery(query, session_id) ==
    /\ state.node \in {"none", "returned", "failed"}
    /\ clock + 2 <= Horizon
    /\ state' = InitialState(query, session_id)
    /\ response' = None
    /\ agent' = NoAnalysis
    /\ UNCHANGED <<memVars, retrVars, limiterVars>>

\* the note on the patient context in the prompt of the router
ContextNote(context_summary) ==
    IF context_summary # NoPatientContext THEN Some(context_summary) ELSE None

\* response.content.strip().upper()
Classification(content) == Upper(Strip(content))

\* a slip: RESEARCH is looked for first
ResearchFirst(classification) ==
    IF In("RESEARCH", classification) THEN "research"
    ELSE IF In("DIAGNOSIS", classification) THEN "diagnosis"
    ELSE "qa"

\* the if/elif/else on the classification
QueryType(classification) ==
    IF In("DIAGNOSIS", classification) THEN "diagnosis"
    ELSE IF In("RESEARCH", classification) THEN "research"
    ELSE "qa"

\* _decide_agent and the conditional edges: the node named by the query type
DecideAgent(query_type) == [diagnosis |-> "diagnosis", qa |-> "qa", research |-> "research"][query_type]

\* _route_query, when the model replies content or its call ends in llm
RouteQuery(content, llm) ==
    /\ state.node = "route"
    /\ IF llm # "none" THEN Failed(llm)
       ELSE LET context_summary == get_context_summary("m1", state.session_id)
                query_type == QueryType(Classification(content))
            IN  /\ state' = [state EXCEPT !.patient_context = context_summary,
                                          !.context_note = ContextNote(context_summary),
                                          !.classification = content,
                                          !.query_type = query_type,
                                          !.node = DecideAgent(query_type)]
                /\ UNCHANGED response
    /\ UNCHANGED <<memVars, retrVars, agent, limiterVars>>

\* retriever.search(query, top_k=5) of an agent, on the retriever the orchestrator
\* built: the relevances and the order are those of its index
AgentSearch(embedding, store) ==
    \E score \in [1..(IF bm25 = None THEN 0 ELSE bm25[1]) -> {0, 1}],
       order \in {q \in Arrangements(DOMAIN points, Cardinality(DOMAIN points)) :
                      Len(q) = Cardinality(DOMAIN points)} :
        SearchUnder(score, order, AgentTopK, embedding, store)

\* what diagnose() returns
Diagnosis(fields, retrieved_docs) ==
    [diagnosis |-> fields.diagnosis, confidence |-> fields.confidence,
     recommendations |-> fields.recommendations,
     retrieved_docs_count |-> Len(retrieved_docs)]

\* _execute_diagnosis: the agent retrieves, asks the model and parses its analysis
ExecuteDiagnosis(analysis, embedding, store, llm) ==
    /\ state.node = "diagnosis"
    /\ AgentSearch(embedding, store)
    /\ IF rcall'.raised # "none" THEN Failed(rcall'.raised) /\ UNCHANGED agent
       ELSE IF llm # "none" THEN Failed(llm) /\ UNCHANGED agent
       ELSE /\ agent' = Analyzed(analysis)
            /\ state' = [state EXCEPT !.agent_response = Diagnosis(agent', hybrid_results'),
                                      !.ran = "diagnosis",
                                      !.node = "format"]
            /\ UNCHANGED response
    /\ UNCHANGED <<memVars, limiterVars>>

\* what ask() returns
Answer(question, answer, retrieved_docs) ==
    [question |-> question, answer |-> answer, retrieved_docs_count |-> Len(retrieved_docs)]

\* _execute_qa
ExecuteQA(answer, embedding, store, llm) ==
    /\ state.node = "qa"
    /\ AgentSearch(embedding, store)
    /\ IF rcall'.raised # "none" THEN Failed(rcall'.raised)
       ELSE IF llm # "none" THEN Failed(llm)
       ELSE /\ state' = [state EXCEPT
                             !.agent_response = Answer(state.user_query, answer, hybrid_results'),
                             !.ran = "qa",
                             !.node = "format"]
            /\ UNCHANGED response
    /\ UNCHANGED <<memVars, agent, limiterVars>>

\* a paper as _search_pubmed keeps it
Paper == [title |-> "a trial", url |-> "https://pubmed.ncbi.nlm.nih.gov/1/"]

\* what research() returns: the first three papers are the key papers
Research(query, findings, pubmed_results) ==
    [query |-> query, findings |-> findings, key_papers |-> Prefix(pubmed_results, 3),
     total_papers |-> Len(pubmed_results)]

\* _execute_research: a failed PubMed search is a search without results, and
\* the model is asked only when there are papers
ExecuteResearch(pubmed_results, synthesis, llm) ==
    /\ state.node = "research"
    /\ IF pubmed_results # <<>> /\ llm # "none" THEN Failed(llm)
       ELSE /\ state' = [state EXCEPT
                             !.agent_response =
                                 Research(state.user_query,
                                          IF pubmed_results = <<>>
                                          THEN <<"No research papers found for this query.">>
                                          ELSE synthesis,
                                          pubmed_results),
                             !.ran = "research",
                             !.node = "format"]
            /\ UNCHANGED response
    /\ UNCHANGED <<memVars, retrVars, agent, limiterVars>>

\* f"{confidence:.1%}"
Percent(confidence) ==
    CASE confidence = 90 -> "90.0%" [] confidence = 85 -> "85.0%"
      [] confidence = 70 -> "70.0%" [] confidence = 50 -> "50.0%"

\* a number in a text
Count(n) == ToString(n)

RECURSIVE PaperLines(_)
PaperLines(papers) ==
    IF papers = <<>> THEN <<>>
    ELSE <<Head(papers).title, Head(papers).url>> \o PaperLines(Tail(papers))

\* the text _format_response builds
Formatted(query_type, r) ==
    CASE query_type = "diagnosis" ->
             <<"DIAGNOSIS ANALYSIS", "Diagnosis: ">> \o r.diagnosis
                 \o <<"Confidence: ", Percent(r.confidence), "RECOMMENDATIONS:">>
                 \o r.recommendations \o <<"Evidence: ", Count(r.retrieved_docs_count)>>
      [] query_type = "qa" ->
             <<"MEDICAL Q&A", "Q: ">> \o r.question \o <<"A: ">> \o r.answer
                 \o <<"Sources: ", Count(r.retrieved_docs_count)>>
      [] OTHER ->
             <<"RESEARCH SYNTHESIS", "Topic: ">> \o r.query \o r.findings
                 \o <<"Analyzed ", Count(r.total_papers), "KEY PAPERS:">>
                 \o PaperLines(r.key_papers)

\* a slip: the query type only
TypeOnly(query_type, r) == [query_type |-> query_type]

\* the metadata saved with the reply
ReplyMetadata(query_type, r) ==
    IF query_type = "diagnosis"
    THEN [query_type |-> "diagnosis", diagnosis |-> r.diagnosis, confidence |-> r.confidence]
    ELSE [query_type |-> query_type]

\* _format_response, up to its first add_message: the user query is saved
FormatQuery ==
    /\ state.node = "format"
    /\ AddMessageBefore(Horizon, "m1", state.session_id, "user", state.user_query, None)
    /\ state' = [state EXCEPT !.node = "format reply"]
    /\ UNCHANGED <<response, agent, retrVars, limiterVars>>

\* _format_response, from there: the reply is built and saved
FormatReply ==
    /\ state.node = "format reply"
    /\ LET formatted == Formatted(state.query_type, state.agent_response)
       IN  /\ AddMessageBefore(Horizon, "m1", state.session_id, "assistant", formatted,
                               Some(ReplyMetadata(state.query_type, state.agent_response)))
           /\ IF last'.raised # "none" THEN Failed(last'.raised)
              ELSE /\ state' = [state EXCEPT !.final_response = formatted, !.node = "END"]
                   /\ UNCHANGED response
    /\ UNCHANGED <<agent, retrVars, limiterVars>>

\* what process() returns
Result ==
    [query |-> state.user_query, query_type |-> state.query_type,
     response |-> state.final_response, patient_context |-> state.patient_context]

\* the default of the endpoint for a result that names no confidence
DefaultConfidence == 85

\* result.get("agent_response", {}).get("confidence", 0.85)
Confidence(result) ==
    IF "agent_response" \in DOMAIN result /\ "confidence" \in DOMAIN result["agent_response"]
    THEN result["agent_response"]["confidence"]
    ELSE DefaultConfidence

QueryResponse(result) ==
    [status_code |-> 200, query |-> state.user_query, response |-> result["response"],
     agent_used |-> result["query_type"], confidence |-> Confidence(result),
     session_id |-> state.session_id]

\* the graph is at END: process() returns and process_query answers
Respond ==
    /\ state.node = "END"
    /\ response' = Some(QueryResponse(Result))
    /\ state' = [state EXCEPT !.node = "returned"]
    /\ UNCHANGED <<memVars, retrVars, agent, limiterVars>>

\* DELETE /sessions/{session_id}: orchestrator.clear_session
ClearOrchestratorSession(session_id) ==
    /\ state.node \in {"none", "returned", "failed"}
    /\ ClearSession("m1", session_id)
    /\ UNCHANGED <<orchVars, retrVars, limiterVars>>

InitOrchestrator ==
    /\ state = NoState
    /\ response = None
    /\ agent = NoAnalysis

----------------------------------------------------------------------------
(* RateLimiter *)

\* self.limits, and the windows is_allowed checks them in, in seconds
PerMinute == 60

PerHour == 500

PerDay == 5000

Minute == 60

Hour == 3600

Day == 86400

\* the last reading of the clock
MaxTime == 1600

\* how long a client that was turned away waits: the minute window and a second
Wait == Minute + 1

\* _clean_old_requests: requests older than the window are dropped from the left
RECURSIVE CleanOldRequests(_, _, _)
CleanOldRequests(deque, window_seconds, t) ==
    IF deque # <<>> /\ Head(deque) < t - window_seconds
    THEN CleanOldRequests(Tail(deque), window_seconds, t)
    ELSE deque

\* check_rate_limit at time t: the deque it leaves and what it returns
CheckRateLimit(deque, max_requests, window_seconds, t) ==
    LET cleaned == CleanOldRequests(deque, window_seconds, t)
    IN  IF Len(cleaned) >= max_requests
        THEN [requests |-> cleaned, allowed |-> FALSE]
        ELSE [requests |-> Append(cleaned, t), allowed |-> TRUE]

\* what is_allowed returned, to which session and when
Verdict(session_id, allowed, message) ==
    [session_id |-> session_id, allowed |-> allowed, message |-> message, at |-> now]

\* is_allowed: the three checks in turn, each on the one deque of the session
IsAllowed(session_id) ==
    LET minute == CheckRateLimit(requests[session_id], PerMinute, Minute, now)
        hour == CheckRateLimit(minute.requests, PerHour, Hour, now)
        day == CheckRateLimit(hour.requests, PerDay, Day, now)
    IN  /\ IF ~minute.allowed
           THEN /\ requests' = [requests EXCEPT ![session_id] = minute.requests]
                /\ verdict' = Verdict(session_id, FALSE, Some("per minute"))
           ELSE IF ~hour.allowed
           THEN /\ requests' = [requests EXCEPT ![session_id] = hour.requests]
                /\ verdict' = Verdict(session_id, FALSE, Some("per hour"))
           ELSE IF ~day.allowed
           THEN /\ requests' = [requests EXCEPT ![session_id] = day.requests]
                /\ verdict' = Verdict(session_id, FALSE, Some("per day"))
           ELSE /\ requests' = [requests EXCEPT ![session_id] = day.requests]
                /\ verdict' = Verdict(session_id, TRUE, None)
        /\ admitted' = IF verdict'.allowed
                       THEN [admitted EXCEPT ![session_id] = Append(@, now)]
                       ELSE admitted
        /\ UNCHANGED now

\* time passes
Advance(seconds) ==
    /\ now + seconds <= MaxTime
    /\ now' = now + seconds
    /\ UNCHANGED <<requests, verdict, admitted>>

InitLimiter ==
    /\ requests = [s \in Sessions |-> <<>>]
    /\ now = 0
    /\ verdict = Verdict("", TRUE, None)
    /\ admitted = [s \in Sessions |-> <<>>]

----------------------------------------------------------------------------
(* Specifications of ConversationMemory *)

Contents == {"text"}

Metadatas == {None, Some(MetaQA), Some(MetaDiagnosis)}

\* One instance, created, written and cleared session by session.
Init == InitMemory /\ InitRetriever /\ InitOrchestrator /\ InitLimiter

Next ==
    \/ \E s \in Sessions : CreateSession("m1", s) /\ UNCHANGED nonMemVars
    \/ \E s \in Sessions, role \in Roles, content \in Contents, metadata \in Metadatas :
           AddMessage("m1", s, role, content, metadata) /\ UNCHANGED nonMemVars
    \/ \E s \in Sessions : ClearSession("m1", s) /\ UNCHANGED nonMemVars

Spec == Init /\ [][Next]_vars

\* One session that replies with every kind of metadata write to.
ContextCalls ==
    ({"assistant"} \X {Some(MetaSymptoms), Some(MetaSymptomsMeds), Some(MetaDiagnosis),
                       Some(MetaCase), Some(MetaInfo)})
        \cup {<<"user", Some(MetaCase)>>}

NextContext ==
    \/ \E call \in ContextCalls, content \in Contents :
           AddMessage("m1", "s1", call[1], content, call[2]) /\ UNCHANGED nonMemVars
    \/ ClearSession("m1", "s1") /\ UNCHANGED nonMemVars

SpecContext == Init /\ [][NextContext]_vars

\* A session of instance m1 exported and imported by instance m2.
NextTransfer ==
    \/ \E role \in Roles, content \in Contents, metadata \in Metadatas :
           AddMessage("m1", "s1", role, content, metadata) /\ UNCHANGED nonMemVars
    \/ \E s \in Sessions : ExportSession("m1", s) /\ UNCHANGED nonMemVars
    \/ ImportSession("m2") /\ UNCHANGED nonMemVars
    \/ \E s \in Sessions : ClearSession("m2", s) /\ UNCHANGED nonMemVars

SpecTransfer == Init /\ [][NextTransfer]_vars

\* the sessions that are written: one of m1, both of m2
Written == {<<"m1", "s1">>, <<"m2", "s1">>, <<"m2", "s2">>}

\* Two instances: both are written; m1 exports, m2 imports and clears.
NextInstances ==
    \/ \E w \in Written :
           AddMessage(w[1], w[2], "assistant", "text", Some(MetaDiagnosis))
               /\ UNCHANGED nonMemVars
    \/ \E s \in Sessions : ExportSession("m1", s) /\ UNCHANGED nonMemVars
    \/ ImportSession("m2") /\ UNCHANGED nonMemVars
    \/ \E s \in Sessions : ClearSession("m2", s) /\ UNCHANGED nonMemVars

SpecInstances == Init /\ [][NextInstances]_vars

\* One instance whose sessions are created, written, read, exported, cleared and
\* imported again.
NextLifecycle ==
    \/ \E s \in Sessions : CreateSession("m1", s) /\ UNCHANGED nonMemVars
    \/ \E s \in Sessions :
           AddMessage("m1", s, "assistant", "text", Some(MetaDiagnosis)) /\ UNCHANGED nonMemVars
    \/ \E op \in Readers, s \in Sessions : Read(op, "m1", s) /\ UNCHANGED nonMemVars
    \/ \E s \in Sessions : ExportSession("m1", s) /\ UNCHANGED nonMemVars
    \/ ImportSession("m1") /\ UNCHANGED nonMemVars
    \/ \E s \in Sessions : ClearSession("m1", s) /\ UNCHANGED nonMemVars

SpecLifecycle == Init /\ [][NextLifecycle]_vars

\* the process() calls in flight on one orchestrator: p1 and p2 for session s1, p3
\* and p4 for session s2
Processes == {"p1", "p2", "p3", "p4"}

SessionOf(p) == IF p \in {"p3", "p4"} THEN "s2" ELSE "s1"

\* state['user_query'] of the call
Query(p) == [p1 |-> "q1", p2 |-> "q2", p3 |-> "q3", p4 |-> "q4"][p]

\* the formatted reply to the query of the call
Reply(p) ==
    [p1 |-> "reply to q1", p2 |-> "reply to q2", p3 |-> "reply to q3", p4 |-> "reply to q4"][p]

MetaResearch == [query_type |-> "research"]

\* the metadata _format_response passes with the reply, by query type
ReplyMetadatas == {MetaDiagnosis, MetaQA, MetaResearch}

\* where a call is: whether its first and its second add_message are done
Logged(p, role, content) ==
    LET log == get_conversation("m1", SessionOf(p), None)
    IN  \E i \in 1..Len(log) : log[i].role = role /\ log[i].content = content

\* _format_response, first add_message: the user query
FormatUser(p) ==
    /\ ~Logged(p, "user", Query(p))
    /\ AddMessage("m1", SessionOf(p), "user", Query(p), None)

\* _format_response, second add_message: the reply of the agent
FormatAssistant(p, metadata) ==
    /\ Logged(p, "user", Query(p))
    /\ ~Logged(p, "assistant", Reply(p))
    /\ AddMessage("m1", SessionOf(p), "assistant", Reply(p), Some(metadata))

\* process() calls on threads that share the orchestrator: nothing orders the
\* add_message calls of one call with those of another.
NextConcurrent ==
    \/ \E p \in Processes : FormatUser(p) /\ UNCHANGED nonMemVars
    \/ \E p \in Processes, metadata \in ReplyMetadatas :
           FormatAssistant(p, metadata) /\ UNCHANGED nonMemVars

SpecConcurrent == Init /\ [][NextConcurrent]_vars

----------------------------------------------------------------------------
(* Specifications of the retriever *)

DocSet == {Docs[i] : i \in 1..Len(Docs)}

\* the id of a document's point when Docs is what was indexed
PointId(doc) == (CHOOSE i \in 1..Len(Docs) : Docs[i] = doc) - 1

LexicalResults(q) == [i \in 1..Len(q) |-> [document |-> q[i], score |-> Len(q) - i, rank |-> i]]

VectorResults(q) == [i \in 1..Len(q) |-> [id |-> PointId(q[i]), payload |-> q[i]]]

\* reciprocal_rank_fusion on any two result lists over the documents
InitFusion ==
    /\ InitMemory
    /\ InitOrchestrator
    /\ InitLimiter
    /\ bm25 = Some(Len(Docs))
    /\ documents = Docs
    /\ points = [id \in 0..(Len(Docs) - 1) |-> Docs[id + 1]]
    /\ bm25_results \in {LexicalResults(q) : q \in Arrangements(DocSet, MaxResults)}
    /\ vector_results \in {VectorResults(q) : q \in Arrangements(DocSet, MaxResults)}
    /\ scores = <<>>
    /\ hybrid_results = <<>>
    /\ rcall = RCall("input", 0, "none")

NextFusion == Fuse /\ UNCHANGED nonRetrVars

SpecFusion == InitFusion /\ [][NextFusion]_vars

\* the orders in which the vector store may return its points
Orders == {q \in Arrangements(DOMAIN points, Cardinality(DOMAIN points)) :
               Len(q) = Cardinality(DOMAIN points)}

\* the documents indexed: two chunks with the same chunk_id and a document without
SearchDocs == {DocA, DocE, DocF}

\* the relevance BM25 gives a document for a query
Relevances == {0, 1}

\* A retriever that is built, indexes documents and is searched.  The collection
\* of the vector store outlives the process: it is empty, or holds what an earlier
\* process indexed.
InitSearch ==
    /\ InitMemory
    /\ InitOrchestrator
    /\ InitLimiter
    /\ bm25 = None
    /\ documents = <<>>
    /\ points \in {EmptyDict, [id \in 0..1 |-> <<DocA, DocE>>[id + 1]]}
    /\ bm25_results = <<>>
    /\ vector_results = <<>>
    /\ scores = <<>>
    /\ hybrid_results = <<>>
    /\ rcall = RCall("init", 0, "none")

NextSearch ==
    \/ \E docs \in Arrangements(SearchDocs, MaxDocs) :
           IndexDocuments(docs, Len(docs)) /\ UNCHANGED nonRetrVars
    \/ \E score \in [1..(IF bm25 = None THEN 0 ELSE bm25[1]) -> Relevances],
          order \in Orders, top_k \in 0..MaxTopK :
           Search(score, order, top_k) /\ UNCHANGED nonRetrVars

SpecSearch == InitSearch /\ [][NextSearch]_vars

\* how the embedding call and the search of the vector store may end
EmbeddingOutcomes == {"none", "EmbeddingError"}

StoreOutcomes == {"none", "VectorStoreError"}

\* the relevances BM25 may give the documents of its index
AllScores == [1..(IF bm25 = None THEN 0 ELSE bm25[1]) -> Relevances]

\* A retriever whose embedding model and vector store may fail.
NextFaults ==
    \/ \E docs \in Arrangements(SearchDocs, MaxDocs) :
           IndexDocuments(docs, Len(docs)) /\ UNCHANGED nonRetrVars
    \/ \E score \in AllScores, order \in Orders, top_k \in 0..MaxTopK,
          embedding \in EmbeddingOutcomes, store \in StoreOutcomes :
           SearchUnder(score, order, top_k, embedding, store) /\ UNCHANGED nonRetrVars

SpecFaults == InitSearch /\ [][NextFaults]_vars

\* chunk i of a file of CorpusSize chunks
Chunk(i) == [text |-> "t", source |-> "f3", chunk_id |-> i, total_chunks |-> CorpusSize]

Corpus == [i \in 1..CorpusSize |-> Chunk(i - 1)]

\* 1..n from r + 1 on, around
Rotation(n, r) == [i \in 1..n |-> ((i + r - 1) % n) + 1]

\* the relevances that rank the documents of the index in the order of the index,
\* or from its second or third document on, around
RotatedScores ==
    LET n == IF bm25 = None THEN 0 ELSE bm25[1]
    IN  {[i \in 1..n |-> IF i > r THEN 1 ELSE 0] : r \in 0..2}

\* the rotated orders of the ids of the points
RotatedOrders ==
    LET n == Cardinality(DOMAIN points)
    IN  {[i \in 1..n |-> Rotation(n, r)[i] - 1] : r \in 0..(IF n = 0 THEN 0 ELSE n - 1)}

\* A retriever that indexes a corpus larger than the depth of its sub-searches.
NextCorpus ==
    \/ IndexDocuments(Corpus, Len(Corpus)) /\ UNCHANGED nonRetrVars
    \/ \E score \in RotatedScores, order \in RotatedOrders,
          top_k \in (SearchDepth - 1)..CorpusSize :
           Search(score, order, top_k) /\ UNCHANGED nonRetrVars

SpecCorpus == Init /\ [][NextCorpus]_vars

\* the queries sent to the endpoint
Queries == {<<"chest pain">>}

\* what the model may reply to the router
ClassifierOutputs ==
    {<<"DIAGNOSIS">>, <<" ", "Research", "\n">>, <<"RESEARCH", " ", "DIAGNOSIS">>,
     <<"unsure">>}

\* analyses of the model: the format asked for, with a percentage only, and free text
CaseAnalyses ==
    {<<"1.", " ", "PRIMARY DIAGNOSIS:", " ", "flu", "\n",
       "2.", " ", "CONFIDENCE LEVEL:", " ", "High", "\n",
       "5.", " ", "RECOMMENDED NEXT STEPS:", " ", "rest">>,
     <<"**", "PRIMARY DIAGNOSIS**:", " ", "angina", "\n",
       "**", "CONFIDENCE LEVEL**:", " ", "95%", "\n">>,
     <<"unsure">>}

Answers == {<<"an answer">>}

PubmedResults == {<<>>, <<Paper>>}

Syntheses == {<<"a synthesis">>}

\* The query endpoint on one orchestrator: requests are processed one at a time,
\* node by node, and sessions are cleared between them.
NextOrchestrator ==
    \/ \E query \in Queries, session_id \in Sessions : ProcessQuery(query, session_id)
    \/ \E content \in ClassifierOutputs, llm \in LLMOutcomes : RouteQuery(content, llm)
    \/ \E analysis \in CaseAnalyses, embedding \in EmbeddingOutcomes,
          store \in StoreOutcomes, llm \in LLMOutcomes :
           ExecuteDiagnosis(analysis, embedding, store, llm)
    \/ \E answer \in Answers, embedding \in EmbeddingOutcomes,
          store \in StoreOutcomes, llm \in LLMOutcomes :
           ExecuteQA(answer, embedding, store, llm)
    \/ \E pubmed_results \in PubmedResults, synthesis \in Syntheses, llm \in LLMOutcomes :
           ExecuteResearch(pubmed_results, synthesis, llm)
    \/ FormatQuery
    \/ FormatReply
    \/ Respond
    \/ \E session_id \in Sessions : ClearOrchestratorSession(session_id)

SpecOrchestrator == Init /\ [][NextOrchestrator]_vars

\* the sections an analysis is made of: none, the marker plain or bold, the field on
\* the marker's line or not
Preambles == {<<>>, <<"a case history of 250 characters", "\n">>}

DiagnosisSections ==
    {<<>>,
     <<"1.", " ", "PRIMARY DIAGNOSIS:", " ", "flu", " ", "\n">>,
     <<"**", "PRIMARY DIAGNOSIS**:", " ", "2019-nCoV", "\n">>,
     <<"PRIMARY DIAGNOSIS:", "\n", "flu", "\n">>}

ConfidenceSections ==
    {<<>>,
     <<"2.", " ", "CONFIDENCE LEVEL:", " ", "High", " ", "-", " ", "85%", "\n">>,
     <<"**", "CONFIDENCE LEVEL**:", " ", "Medium", "\n">>,
     <<"CONFIDENCE LEVEL:", " ", "LOW", "\n">>,
     <<"CONFIDENCE LEVEL:", " ", "95%", "\n">>,
     <<"CONFIDENCE LEVEL:", " ", "LOW", " ", "1990", "\n">>,
     <<"CONFIDENCE LEVEL:", " ", "Unclear", "\n">>,
     <<"CONFIDENCE LEVEL:", "\n", "High", "\n">>}

RecommendationSections ==
    {<<>>,
     <<"5.", " ", "RECOMMENDED NEXT STEPS:", " ", "1.", " ", "rest", "\n", "\n", "unsure">>,
     <<"**", "RECOMMENDED NEXT STEPS**:", "\n", "-", " ", "rest", "\n">>}

Analyses ==
    {p \o d \o c \o r : p \in Preambles, d \in DiagnosisSections,
                        c \in ConfidenceSections, r \in RecommendationSections}

\* The diagnosis agent parsing a reply of the model.
InitExtract ==
    /\ InitMemory
    /\ InitRetriever
    /\ InitLimiter
    /\ state = NoState
    /\ response = None
    /\ agent \in {[NoAnalysis EXCEPT !.step = "reply", !.analysis = a] : a \in Analyses}

NextExtract == AnalyzeSymptoms /\ UNCHANGED <<memVars, retrVars, limiterVars>>

SpecExtract == InitExtract /\ [][NextExtract]_vars

\* The rate limiter under two clients: session s1 sends requests all the time and,
\* once turned away, may wait until the minute window has passed; session s2 sends
\* its requests in the first second.
NextLimiter ==
    \/ \E session_id \in Sessions :
           /\ session_id = "s1" \/ now = 0
           /\ IsAllowed(session_id)
           /\ UNCHANGED <<memVars, retrVars, orchVars>>
    \/ /\ verdict.session_id = "s1"
       /\ ~verdict.allowed
       /\ verdict.at = now
       /\ Advance(Wait)
       /\ UNCHANGED <<memVars, retrVars, orchVars>>

SpecLimiter == Init /\ [][NextLimiter]_vars

----------------------------------------------------------------------------
(* Properties of ConversationMemory *)

MaxLastN == 4

Categories == {"patient_info", "symptoms_mentioned", "diagnoses_received", "medications_mentioned"}

\* what each category of a context dict holds; a dict without the category holds nothing
CategoriesOf(context) == [k \in Categories |-> IF k \in DOMAIN context THEN context[k] ELSE <<>>]

NoData(context) == \A k \in Categories : CategoriesOf(context)[k] = <<>>

\* the last min(n, Len(log)) entries of log, in the order of log
Tail_n(log, n) ==
    LET k == IF n < Len(log) THEN n ELSE Len(log)
    IN  [i \in 1..k |-> log[Len(log) - k + i]]

\* C1: after N add_message calls on a session that was absent, get_conversation
\* (without last_n) returns exactly the N messages of those calls, in call order.
C1_AppendOrder ==
    \A m \in Mems, s \in Sessions : get_conversation(m, s, None) = sent[m][s]

C1_Witness ==
    \E s \in Sessions :
        /\ Len(sent["m1"][s]) >= 3
        /\ sent["m1"][s][1].role = "assistant"
        /\ sent["m1"][s][2].role = "user"
        /\ sent["m1"][s][3].metadata # EmptyDict

\* C3: an add_message call with role 'user' (with or without metadata) or with role
\* 'assistant' and no metadata appends its message to the log and leaves the session's
\* context as it was: an existing context dict is unchanged, and a context made by
\* this very call has nothing in any category.
C3_ContextFrame ==
    [][\A m \in Mems, s \in Sessions :
         (/\ last'.op = "add_message" /\ last'.mem = m /\ last'.session = s
          /\ ~(last'.role = "assistant" /\ Truthy(last'.metadata)))
         => /\ get_conversation(m, s, None)' =
                  Append(get_conversation(m, s, None),
                         [timestamp |-> clock, role |-> last'.role, content |-> last'.content,
                          metadata |-> IF last'.metadata = None THEN EmptyDict
                                       ELSE last'.metadata[1]])
            /\ CategoriesOf(get_patient_context(m, s))' = CategoriesOf(get_patient_context(m, s))
            /\ s \in DOMAIN patient_contexts[m]
                   => get_patient_context(m, s)' = get_patient_context(m, s)
            /\ last'.raised = "none"]_vars

C3_Witness ==
    /\ last.op = "add_message" /\ last.role = "user" /\ Truthy(last.metadata)
    /\ "diagnosis" \in DOMAIN last.metadata[1]
    /\ Len(get_conversation(last.mem, last.session, None)) >= 2
    /\ Len(get_patient_context(last.mem, last.session)["diagnoses_received"]) = 1

\* C4 as stated: the summary of every session with zero messages is the 'no context'
\* sentinel, and that of every session with messages and no data in any category is
\* the 'no summarizable data' sentinel.
C4_SentinelsByMessages ==
    \A m \in Mems, s \in Sessions :
        LET n == Len(get_conversation(m, s, None))
        IN  /\ n = 0 => get_context_summary(m, s) = NoPatientContext
            /\ (n > 0 /\ NoData(get_patient_context(m, s)))
                   => get_context_summary(m, s) = NoContext

\* C4 as amended: the summary is the 'no context' sentinel exactly for the sessions
\* that have no context aggregate, and the 'no summarizable data' sentinel exactly for
\* the sessions whose aggregate exists with nothing in any category, whether or not
\* the session has messages (a session made by create_session has none).
C4_SentinelsByContext ==
    \A m \in Mems, s \in Sessions :
        LET context == get_patient_context(m, s)
        IN  /\ get_context_summary(m, s) = NoPatientContext <=> DOMAIN context = {}
            /\ get_context_summary(m, s) = NoContext <=> (DOMAIN context # {} /\ NoData(context))
            /\ s \notin DOMAIN conversations[m] => get_context_summary(m, s) = NoPatientContext

C4_Witness ==
    /\ "s1" \in DOMAIN conversations["m1"]
    /\ get_conversation("m1", "s1", None) = <<>>
    /\ get_context_summary("m1", "s1") = NoContext
    /\ Len(get_conversation("m1", "s2", None)) = 2
    /\ get_context_summary("m1", "s2") = NoContext

\* C6: clear_session(id) leaves the instance with neither a log nor a context for
\* the session and raises nothing; the other sessions keep theirs; and on a session
\* that is absent it changes nothing of the store.
C6_ClearSession ==
    [][\A m \in Mems, s \in Sessions :
         (last'.op = "clear_session" /\ last'.mem = m /\ last'.session = s)
         => /\ s \notin DOMAIN conversations'[m]
            /\ s \notin DOMAIN patient_contexts'[m]
            /\ last'.raised = "none"
            /\ \A o \in Sessions \ {s} :
                   /\ o \in DOMAIN conversations'[m] <=> o \in DOMAIN conversations[m]
                   /\ o \in DOMAIN patient_contexts'[m] <=> o \in DOMAIN patient_contexts[m]
                   /\ get_conversation(m, o, None)' = get_conversation(m, o, None)
                   /\ get_patient_context(m, o)' = get_patient_context(m, o)
            /\ (s \notin DOMAIN conversations[m] /\ s \notin DOMAIN patient_contexts[m])
                   => UNCHANGED <<conversations, patient_contexts, lists, dicts>>]_vars

C6_Witness ==
    /\ last.op = "clear_session" /\ last.session = "s1"
    /\ clock = 2
    /\ DOMAIN conversations["m1"] = {"s2"}
    /\ get_patient_context("m1", "s2").created_at = 1
    /\ Len(get_conversation("m1", "s2", None)) = 1

\* C7: with last_n >= 0 given, get_conversation returns the last min(last_n, L)
\* messages of the log of length L, in the order of the log; without last_n, the log.
C7_LastN ==
    \A m \in Mems : \A s \in DOMAIN conversations[m] :
        LET log == lists[conversations[m][s]]
        IN  /\ get_conversation(m, s, None) = log
            /\ \A n \in 0..MaxLastN : get_conversation(m, s, Some(n)) = Tail_n(log, n)

\* C7 holds for every last_n >= 1
C7_LastNPositive ==
    \A m \in Mems : \A s \in DOMAIN conversations[m] :
        LET log == lists[conversations[m][s]]
        IN  \A n \in 1..MaxLastN : get_conversation(m, s, Some(n)) = Tail_n(log, n)

RECURSIVE MetadataValues(_, _)
\* the values listed under key in the metadata of the assistant messages of calls,
\* in the order they were mentioned
MetadataValues(calls, key) ==
    IF calls = <<>> THEN <<>>
    ELSE LET c == calls[Len(calls)]
             before == MetadataValues(SubSeq(calls, 1, Len(calls) - 1), key)
         IN  IF c.role = "assistant" /\ key \in DOMAIN c.metadata
             THEN before \o c.metadata[key] ELSE before

RECURSIVE FirstMentions(_)
\* seq without the entries that repeat an earlier one
FirstMentions(seq) ==
    IF seq = <<>> THEN <<>>
    ELSE LET init == SubSeq(seq, 1, Len(seq) - 1)
             x == seq[Len(seq)]
         IN  IF \E i \in 1..Len(init) : init[i] = x THEN FirstMentions(init)
             ELSE Append(FirstMentions(init), x)

\* the assistant calls that carried a diagnosis
WithDiagnosis(calls) ==
    SelectSeq(calls, LAMBDA c : c.role = "assistant" /\ "diagnosis" \in DOMAIN c.metadata)

\* C2: after any sequence of add_message calls on a session, the symptom list and the
\* medication list hold every value mentioned by an assistant message once, in order
\* of first mention, and the diagnosis list holds one record per assistant message
\* that carried a diagnosis, in call order, equal texts included.
C2_ContextAggregation ==
    \A s \in DOMAIN patient_contexts["m1"] :
        LET context == get_patient_context("m1", s)
            calls == sent["m1"][s]
            diagnosed == WithDiagnosis(calls)
        IN  /\ context["symptoms_mentioned"] = FirstMentions(MetadataValues(calls, "symptoms"))
            /\ context["medications_mentioned"] =
                   FirstMentions(MetadataValues(calls, "medications"))
            /\ Len(context["diagnoses_received"]) = Len(diagnosed)
            /\ \A i \in 1..Len(diagnosed) :
                   context["diagnoses_received"][i].diagnosis = diagnosed[i].metadata["diagnosis"]

C2_Witness ==
    /\ "s1" \in DOMAIN patient_contexts["m1"]
    /\ LET context == get_patient_context("m1", "s1")
       IN  /\ context["symptoms_mentioned"] = <<"fever", "cough">>
           /\ context["medications_mentioned"] = <<"aspirin">>
           /\ Len(context["diagnoses_received"]) = 2
           /\ context["diagnoses_received"][1].diagnosis = context["diagnoses_received"][2].diagnosis

\* C5: import_session of the data export_session just gave for an existing session,
\* into an instance that has no session, gives that instance a session whose message
\* log and patient context equal those of the source session.
C5_RoundTrip ==
    [][\A src \in Mems, tgt \in Mems, s \in Sessions :
         (/\ last.op = "export_session" /\ last.mem = src /\ last.session = s
          /\ last'.op = "import_session" /\ last'.mem = tgt
          /\ s \in DOMAIN conversations[src]
          /\ conversations[tgt] = EmptyDict /\ patient_contexts[tgt] = EmptyDict)
         => /\ last'.session = s
            /\ last'.raised = "none"
            /\ DOMAIN conversations'[tgt] = {s}
            /\ DOMAIN patient_contexts'[tgt] = {s}
            /\ get_conversation(tgt, s, None)' = get_conversation(src, s, None)
            /\ get_patient_context(tgt, s)' = get_patient_context(src, s)
            /\ get_conversation(src, s, None)' = get_conversation(src, s, None)
            /\ get_patient_context(src, s)' = get_patient_context(src, s)]_vars

C5_Witness ==
    /\ last.op = "import_session" /\ last.mem = "m2" /\ last.session = "s1"
    /\ DOMAIN conversations["m2"] = {"s1"}
    /\ Len(get_conversation("m2", "s1", None)) = 3
    /\ get_conversation("m2", "s1", None) = sent["m1"]["s1"]
    /\ Len(get_patient_context("m2", "s1")["diagnoses_received"]) >= 1

----------------------------------------------------------------------------
(* Properties of the retriever *)

\* the keys of the two input lists, lexical list first
InputKeys ==
    [i \in 1..Len(bm25_results) |-> BM25Key(bm25_results[i])]
        \o [i \in 1..Len(vector_results) |-> VectorKey(vector_results[i])]

KeySet == {InputKeys[i] : i \in 1..Len(InputKeys)}

\* the positions (from 1) a key has in each list
LexicalRanks(key) == {i \in 1..Len(bm25_results) : BM25Key(bm25_results[i]) = key}

VectorRanks(key) == {i \in 1..Len(vector_results) : VectorKey(vector_results[i]) = key}

RECURSIVE RankSum(_)
\* the sum of 1/(60 + rank) over a set of ranks, in ScoreUnit-ths
RankSum(ranks) ==
    IF ranks = {} THEN 0
    ELSE LET rank == CHOOSE r \in ranks : TRUE
         IN  (ScoreUnit \div (60 + rank)) + RankSum(ranks \ {rank})

\* the score the fusion gave a key
ScoreOf(key) == scores[CHOOSE j \in 1..Len(scores) : scores[j][1] = key][2]

\* where a key is first seen: in the lexical list, then in the vector list
FirstSeen(key) == CHOOSE i \in 1..Len(InputKeys) :
                      InputKeys[i] = key /\ \A j \in 1..(i - 1) : InputKeys[j] # key

\* the place of a key among the keys by score descending, equal scores by first
\* appearance
Place(key) ==
    1 + Cardinality({other \in KeySet :
                        \/ ScoreOf(other) > ScoreOf(key)
                        \/ ScoreOf(other) = ScoreOf(key) /\ FirstSeen(other) < FirstSeen(key)})

\* the documents of the input lists that have the key
DocumentsOf(key) ==
    {bm25_results[i].document : i \in LexicalRanks(key)}
        \cup {vector_results[i].payload : i \in VectorRanks(key)}

LexicalDocuments == [i \in 1..Len(bm25_results) |-> bm25_results[i].document]

VectorDocuments == [i \in 1..Len(vector_results) |-> vector_results[i].payload]

FusedDocuments == [i \in 1..Len(hybrid_results) |-> hybrid_results[i].document]

\* the lists of the example: lexical [A, B, C], vector [B, A, D]
Example == LexicalDocuments = <<DocA, DocB, DocC>> /\ VectorDocuments = <<DocB, DocA, DocD>>

\* C8: reciprocal_rank_fusion gives exactly the keys of the input lists a score, and
\* the score of a key is the sum of 1/(60 + rank) over the positions (from 1) at which
\* its results stand in the lexical list and in the vector list; a key in both lists
\* scores at least what either list alone gives it; for lexical [A, B, C] and vector
\* [B, A, D], score(A) = score(B) = 1/61 + 1/62 and score(C) = score(D) = 1/63; and
\* each fused entry carries the score of its key.
C8_FusedScores ==
    rcall.op = "reciprocal_rank_fusion" =>
        /\ {scores[j][1] : j \in 1..Len(scores)} = KeySet
        /\ Len(scores) = Cardinality(KeySet)
        /\ \A key \in KeySet :
               /\ ScoreOf(key) = RankSum(LexicalRanks(key)) + RankSum(VectorRanks(key))
               /\ ScoreOf(key) >= RankSum(LexicalRanks(key))
               /\ ScoreOf(key) >= RankSum(VectorRanks(key))
               /\ (LexicalRanks(key) # {} /\ VectorRanks(key) # {})
                      => /\ ScoreOf(key) > RankSum(LexicalRanks(key))
                         /\ ScoreOf(key) > RankSum(VectorRanks(key))
        /\ Example =>
               /\ ScoreOf(ChunkKey(DocA)) = (ScoreUnit \div 61) + (ScoreUnit \div 62)
               /\ ScoreOf(ChunkKey(DocB)) = (ScoreUnit \div 61) + (ScoreUnit \div 62)
               /\ ScoreOf(ChunkKey(DocC)) = ScoreUnit \div 63
               /\ ScoreOf(ChunkKey(DocD)) = ScoreUnit \div 63
               /\ 61 * (ScoreUnit \div 61) = ScoreUnit
               /\ 62 * (ScoreUnit \div 62) = ScoreUnit
               /\ 63 * (ScoreUnit \div 63) = ScoreUnit
        /\ \A i \in 1..Len(hybrid_results) :
               \E key \in KeySet : /\ hybrid_results[i].score = ScoreOf(key)
                                   /\ hybrid_results[i].document \in DocumentsOf(key)

C8_Witness ==
    /\ rcall.op = "reciprocal_rank_fusion"
    /\ Example
    /\ Len(scores) = 4
    /\ ScoreOf(ChunkKey(DocB)) = (ScoreUnit \div 61) + (ScoreUnit \div 62)
    /\ ScoreOf(ChunkKey(DocD)) = ScoreUnit \div 63

\* C9: the fused list is fixed by the input lists: it has one entry per key, up to
\* the depth of the fusion; the entry of a key stands at the key's place by score
\* descending, equal scores in the order in which the keys are first seen (lexical
\* list first, then vector list); the scores never increase along the list; the rank
\* fields are 1..n; and for lexical [A, B, C] and vector [B, A, D] the order is
\* A, B, C, D.
C9_FusedOrder ==
    rcall.op = "reciprocal_rank_fusion" =>
        /\ Len(hybrid_results) =
               (IF Cardinality(KeySet) < FusionDepth THEN Cardinality(KeySet) ELSE FusionDepth)
        /\ \A key \in KeySet :
               Place(key) <= Len(hybrid_results)
                   => /\ hybrid_results[Place(key)].score = ScoreOf(key)
                      /\ hybrid_results[Place(key)].document \in DocumentsOf(key)
        /\ \A i \in 1..Len(hybrid_results) :
               /\ hybrid_results[i].rank = i
               /\ i > 1 => hybrid_results[i - 1].score >= hybrid_results[i].score
        /\ Example => FusedDocuments = <<DocA, DocB, DocC, DocD>>

C9_Witness ==
    /\ rcall.op = "reciprocal_rank_fusion"
    /\ Example
    /\ FusedDocuments = <<DocA, DocB, DocC, DocD>>
    /\ hybrid_results[1].score = hybrid_results[2].score
    /\ hybrid_results[3].score = hybrid_results[4].score
    /\ hybrid_results[4].rank = 4

\* C10: a search that returns returns at most top_k results, for every top_k >= 0;
\* and a search on a retriever whose lexical index was never built and whose vector
\* collection holds no point returns the empty list, and raises nothing.
C10_SearchBound ==
    rcall.op = "search" =>
        /\ rcall.raised = "none" => Len(hybrid_results) <= rcall.top_k
        /\ (bm25 = None /\ DOMAIN points = {})
               => rcall.raised = "none" /\ hybrid_results = <<>>

C10_Witness ==
    /\ rcall.op = "search" /\ rcall.raised = "none"
    /\ rcall.top_k = 2
    /\ Len(hybrid_results) = 2
    /\ Len(scores) > 2

Min(a, b) == IF a < b THEN a ELSE b

\* C11 as stated: search returns the top_k highest-scoring fused candidates: its
\* length is min(top_k, number of keys of the two depth-10 result lists), and the
\* candidate at each of these places is the entry returned there.
C11_TopKOfCandidates ==
    (rcall.op = "search" /\ rcall.raised = "none") =>
        /\ Len(hybrid_results) = Min(rcall.top_k, Cardinality(KeySet))
        /\ \A key \in KeySet :
               Place(key) <= Min(rcall.top_k, Cardinality(KeySet))
                   => /\ hybrid_results[Place(key)].score = ScoreOf(key)
                      /\ hybrid_results[Place(key)].document \in DocumentsOf(key)

\* what holds of C11: the same with the length cut at the depth of the fusion
C11_TopKWithinFusionDepth ==
    (rcall.op = "search" /\ rcall.raised = "none") =>
        LET n == Min(rcall.top_k, Min(FusionDepth, Cardinality(KeySet)))
        IN  /\ Len(hybrid_results) = n
            /\ \A key \in KeySet :
                   Place(key) <= n
                       => /\ hybrid_results[Place(key)].score = ScoreOf(key)
                          /\ hybrid_results[Place(key)].document \in DocumentsOf(key)

\* the documents of the two input lists
InputDocuments ==
    {LexicalDocuments[i] : i \in 1..Len(LexicalDocuments)}
        \cup {VectorDocuments[i] : i \in 1..Len(VectorDocuments)}

\* the positions (from 1) a document has in each list
LexicalRanksOf(doc) == {i \in 1..Len(LexicalDocuments) : LexicalDocuments[i] = doc}

VectorRanksOf(doc) == {i \in 1..Len(VectorDocuments) : VectorDocuments[i] = doc}

\* no two documents of the input lists have the same chunk_id
DistinctChunkIds ==
    \A d, e \in InputDocuments :
        ("chunk_id" \in DOMAIN d /\ "chunk_id" \in DOMAIN e /\ d.chunk_id = e.chunk_id) => d = e

\* the document is in both lists, and the fused list has it exactly once, with the
\* sum of the contributions of its two ranks
FusedOnce(doc) ==
    \E i \in 1..Len(hybrid_results) :
        /\ hybrid_results[i].document = doc
        /\ hybrid_results[i].score = RankSum(LexicalRanksOf(doc)) + RankSum(VectorRanksOf(doc))
        /\ \A j \in 1..Len(hybrid_results) : hybrid_results[j].document = doc => j = i

\* C12 as stated: every document that both the lexical and the vector list return,
\* with or without a chunk_id, is in the fused list exactly once, with the sum of
\* both rank contributions (the documents of the lists having distinct chunk_ids).
C12_FusedOnce ==
    (rcall.op = "reciprocal_rank_fusion" /\ DistinctChunkIds) =>
        \A doc \in InputDocuments :
            (LexicalRanksOf(doc) # {} /\ VectorRanksOf(doc) # {}) => FusedOnce(doc)

\* what holds of C12: the same for the documents that have a chunk_id
C12_FusedOnceWithChunkId ==
    (rcall.op = "reciprocal_rank_fusion" /\ DistinctChunkIds) =>
        \A doc \in InputDocuments :
            (/\ LexicalRanksOf(doc) # {} /\ VectorRanksOf(doc) # {}
             /\ "chunk_id" \in DOMAIN doc) => FusedOnce(doc)

\* C13: a search in which the lexical search, the embedding call or the search of
\* the vector store fails raises the error of the first of them that fails, and
\* returns no result list.
C13_FailurePropagates ==
    [][\A score \in AllScores, order \in Orders, top_k \in 0..MaxTopK,
          embedding \in EmbeddingOutcomes, store \in StoreOutcomes :
           LET lexical == BM25Search(score, SearchDepth).raised
               failures == {lexical, embedding, store} \ {"none"}
           IN  (SearchUnder(score, order, top_k, embedding, store) /\ failures # {})
                   => /\ rcall'.op = "search"
                      /\ rcall'.raised \in failures
                      /\ lexical # "none" => rcall'.raised = lexical
                      /\ (lexical = "none" /\ embedding # "none") => rcall'.raised = embedding
                      /\ hybrid_results' = <<>>]_vars

C13_Witness ==
    /\ rcall.op = "search"
    /\ rcall.raised = "VectorStoreError"
    /\ Len(bm25_results) = 2
    /\ DOMAIN points # {}
    /\ hybrid_results = <<>>

\* C14 as stated: index_documents of an empty list raises nothing, and while the
\* document list of the lexical index is empty every search of the lexical index
\* returns the empty list and raises nothing, whatever was indexed before.
C14_EmptyIndexValid ==
    documents = <<>> =>
        /\ rcall.op = "index_documents" => rcall.raised = "none"
        /\ \A score \in AllScores, top_k \in 0..SearchDepth :
               BM25Search(score, top_k) = [results |-> <<>>, raised |-> "none"]

\* the non-empty lists of documents that are indexed
IndexedLists == Arrangements(SearchDocs, MaxDocs) \ {<<>>}

\* C15 as stated: add_documents appends: every point the collection had is still
\* there with its payload, and every document of the call is the payload of a point
\* of its own that the collection did not have.
C15_AddAppends ==
    [][\A docs \in IndexedLists :
           IndexDocuments(docs, Len(docs))
               => /\ \A id \in DOMAIN points :
                         id \in DOMAIN points' /\ points'[id] = points[id]
                  /\ \A i \in 1..Len(docs) :
                         \E id \in DOMAIN points' \ DOMAIN points : points'[id] = docs[i]
                  /\ Cardinality(DOMAIN points') = Cardinality(DOMAIN points) + Len(docs)]_vars

\* what holds of C15: every document of the call is the payload of the point that
\* has its position in the call (from 0) as id, and the points of higher ids are kept
C15_AddUpserts ==
    [][\A docs \in IndexedLists :
           IndexDocuments(docs, Len(docs))
               => /\ \A i \in 1..Len(docs) :
                         (i - 1) \in DOMAIN points' /\ points'[i - 1] = docs[i]
                  /\ \A id \in DOMAIN points :
                         id >= Len(docs) => (id \in DOMAIN points' /\ points'[id] = points[id])
                  /\ DOMAIN points' = DOMAIN points \cup 0..(Len(docs) - 1)]_vars

\* the documents of the most recent index_documents call
IndexedDocuments == {documents[i] : i \in 1..Len(documents)}

\* the documents the vector index can return
StoredDocuments == {points[id] : id \in DOMAIN points}

\* C16 as stated: once index_documents has returned, the lexical index and the vector
\* index hold exactly the documents of the most recent call.
C16_ReindexReplaces ==
    (bm25 # None /\ documents # <<>>) =>
        /\ bm25[1] = Len(documents)
        /\ StoredDocuments = IndexedDocuments
        /\ Cardinality(DOMAIN points) = Len(documents)

\* what holds of C16: the lexical index holds exactly the documents of the most
\* recent call, and the vector index holds them among its points
C16_ReindexAdds ==
    (bm25 # None /\ documents # <<>>) =>
        /\ bm25[1] = Len(documents)
        /\ IndexedDocuments \subseteq StoredDocuments

\* C17 as stated: with two process() calls in flight for session s1, the log of s1 is
\* that of a serial execution, as far as it has got: every user message but the last
\* message of the log is immediately followed by the reply to its query.
C17_Serialized ==
    LET log == get_conversation("m1", "s1", None)
    IN  \A i \in 1..(Len(log) - 1) :
            log[i].role = "user"
                => /\ log[i + 1].role = "assistant"
                   /\ \E p \in Processes :
                          log[i].content = Query(p) /\ log[i + 1].content = Reply(p)

\* what holds of C17: the reply of a call comes after the user message of that call
C17_ReplyAfterQuery ==
    \A p \in Processes :
        LET log == get_conversation("m1", SessionOf(p), None)
        IN  \A j \in 1..Len(log) :
                (log[j].role = "assistant" /\ log[j].content = Reply(p))
                    => \E i \in 1..(j - 1) : log[i].role = "user" /\ log[i].content = Query(p)

\* whether instance m has session s, and what it holds for it
HasSession(m, s) == s \in DOMAIN conversations[m]

SessionData(m, s) ==
    [log |-> get_conversation(m, s, None), context |-> get_patient_context(m, s),
     hasLog |-> s \in DOMAIN conversations[m], hasContext |-> s \in DOMAIN patient_contexts[m]]

\* C18: add_message, clear_session and import_session on session A of an instance
\* leave every other session B of that instance as it was: whether it exists, its
\* message log and its patient context.
C18_SessionsIndependent ==
    [][\A m \in Mems, a \in Sessions :
         (/\ last'.op \in {"add_message", "clear_session", "import_session"}
          /\ last'.mem = m /\ last'.session = a)
         => \A b \in Sessions \ {a} : SessionData(m, b)' = SessionData(m, b)]_vars

C18_Witness ==
    /\ last.op = "import_session" /\ last.mem = "m2" /\ last.session = "s1"
    /\ Len(get_conversation("m2", "s1", None)) = 1
    /\ Len(get_conversation("m2", "s2", None)) = 2
    /\ Len(get_patient_context("m2", "s2")["diagnoses_received"]) = 2

\* what the caller holds of an export: the session id, the log and the context
ExportedData ==
    IF exported = None THEN None
    ELSE Some([session_id |-> exported[1].session_id,
               conversation |-> lists[exported[1].conversation],
               patient_context |-> dicts[exported[1].patient_context]])

\* C19 as stated: an add_message call on one instance leaves the sessions of the
\* other instance, and the data an earlier export_session returned, as they were.
C19_InstanceOwnsSession ==
    [][\A m \in Mems :
         (last'.op = "add_message" /\ last'.mem = m)
         => /\ \A o \in Mems \ {m}, s \in Sessions : SessionData(o, s)' = SessionData(o, s)
            /\ ExportedData' = ExportedData]_vars

\* C20: a session comes into existence only by an add_message, create_session or
\* import_session call for it, and goes out of existence only by a clear_session call
\* for it; get_conversation, get_patient_context, get_context_summary and
\* export_session leave the sessions of the store as they are, the absent ones absent;
\* a session has a message log exactly when it has a context aggregate.
C20_ExplicitLifecycle ==
    [][\A m \in Mems, s \in Sessions :
         /\ (~HasSession(m, s) /\ HasSession(m, s)')
                => /\ last'.op \in {"add_message", "create_session", "import_session"}
                   /\ last'.mem = m /\ last'.session = s
         /\ (HasSession(m, s) /\ ~HasSession(m, s)')
                => (last'.op = "clear_session" /\ last'.mem = m /\ last'.session = s)
         /\ last'.op \in Readers \cup {"export_session"}
                => /\ SessionData(m, s)' = SessionData(m, s)
                   /\ last'.raised = "none"
         /\ (last'.op \in {"add_message", "create_session", "import_session"}
              /\ last'.mem = m /\ last'.session = s) => HasSession(m, s)'
         /\ (last'.op = "clear_session" /\ last'.mem = m /\ last'.session = s)
                => ~HasSession(m, s)'
         /\ DOMAIN patient_contexts'[m] = DOMAIN conversations'[m]]_vars

C20_Witness ==
    /\ last.op = "export_session" /\ last.mem = "m1" /\ last.session = "s2"
    /\ ~HasSession("m1", "s2")
    /\ HasSession("m1", "s1")
    /\ exported # None /\ exported[1].session_id = "s2"
    /\ clock = 2

----------------------------------------------------------------------------
(* Properties of the orchestrator, the diagnosis agent and the rate limiter *)

Handlers == {"diagnosis", "qa", "research"}

\* the handler the rule picks for a reply of the classifier, read as the router
\* reads it (stripped, in upper case)
Picked(content) ==
    IF In("DIAGNOSIS", Classification(content)) THEN "diagnosis"
    ELSE IF In("RESEARCH", Classification(content)) THEN "research"
    ELSE "qa"

\* the nodes after the handler
AfterHandler == {"format", "format reply", "END", "returned"}

\* the edges of the workflow a call may take: from the router to the handler picked,
\* from a handler, which then has run, to the format step, and from there to END
Edge ==
    /\ state.node = "route" /\ state'.node # "route"
           => state'.node \in {Picked(state'.classification), "failed"}
    /\ state.node \in Handlers /\ state'.node # state.node
           => \/ state'.node = "failed"
              \/ state'.node = "format" /\ state'.ran = state.node
    /\ state.node = "format" /\ state'.node # "format" => state'.node = "format reply"
    /\ state.node = "format reply" /\ state'.node # "format reply"
           => state'.node \in {"END", "failed"}
    /\ state.node = "END" /\ state'.node # "END"
           => /\ state'.node = "returned"
              /\ response'[1].agent_used = state.ran

\* C21: every process() call goes from the router to exactly one handler, the one
\* the rule picks for the classifier's reply (diagnosis if it contains DIAGNOSIS,
\* else research if it contains RESEARCH, else qa), then to the format step and to
\* END, and the query_type reported is the handler that ran.
C21_RoutedToOneHandler ==
    [][/\ Edge
       /\ state'.node \in Handlers => state'.node = Picked(state'.classification)
       /\ state'.node \in AfterHandler
              => /\ state'.ran = Picked(state'.classification)
                 /\ state'.query_type = state'.ran]_vars

C21_Witness ==
    /\ state.node = "returned"
    /\ state.classification = <<"RESEARCH", " ", "DIAGNOSIS">>
    /\ response # None
    /\ response[1].status_code = 200
    /\ response[1].agent_used = "diagnosis"

\* the items of the line of the summary that has the label, none if it has no such line
ItemsOf(summary, label) ==
    IF \E i \in 1..Len(summary) : summary[i][1] = label
    THEN summary[CHOOSE i \in 1..Len(summary) : summary[i][1] = label][2]
    ELSE <<>>

\* the diagnosis text a diagnosis reply shows
Shown(content) == SplitFirst(SplitSecond(content, <<"Diagnosis: ">>), <<"Confidence: ">>)

RECURSIVE DiagnosesOf(_)
DiagnosesOf(messages) ==
    IF messages = <<>> THEN <<>>
    ELSE (IF Head(messages).role = "assistant" /\ In("DIAGNOSIS ANALYSIS", Head(messages).content)
          THEN <<Shown(Head(messages).content)>> ELSE <<>>)
             \o DiagnosesOf(Tail(messages))

\* the diagnosis texts of the diagnosis queries completed in session s since it was
\* last cleared, in the order they completed: those of the replies saved for them
CompletedDiagnoses(s) == DiagnosesOf(sent["m1"][s])

\* C22: the patient context summary the router hands to a query of session s lists
\* the diagnosis texts of all diagnosis queries completed in s since s was last
\* cleared, in the order the queries completed.
C22_ContextFeedsQueries ==
    [][state.node = "route" /\ state'.node \in Handlers
           => ItemsOf(state'.patient_context, "Previous diagnoses: ")
                  = CompletedDiagnoses(state.session_id)]_vars

\* a third query is routed after two diagnosis queries of its session completed
C22_Witness ==
    /\ state.node \in Handlers
    /\ CompletedDiagnoses(state.session_id) = <<<<"flu">>, <<"angina">>>>
    /\ ItemsOf(state.patient_context, "Previous diagnoses: ") = <<<<"flu">>, <<"angina">>>>

\* the values _extract_confidence is documented to return, in percent
Documented == {ConfidenceLow, ConfidenceMedium, ConfidenceHigh, ConfidenceHighest}

IsText(x) == DOMAIN x = 1..Len(x) /\ \A i \in 1..Len(x) : x[i] \in STRING

\* the words and percentages _extract_confidence knows
Levels == {"90", "95", "high", "80", "85", "medium", "70", "75", "low", "50", "60"}

\* the line of the confidence marker, in lower case
ConfidenceLine(analysis) ==
    Lower(SplitFirst(SplitSecond(analysis, <<Marker(analysis, "CONFIDENCE LEVEL")>>), <<"\n">>))

\* the analysis has no confidence marker, or one whose line names no level
Unparseable(analysis) ==
    \/ ~HasMarker(analysis, "CONFIDENCE LEVEL")
    \/ \A level \in Levels : ~In(level, ConfidenceLine(analysis))

\* the three fields are of the documented kinds, and an analysis without a
\* parseable confidence gets the value fallback
ExtractedWith(fallback) ==
    agent.step = "analyzed"
        => /\ agent.confidence \in Documented
           /\ IsText(agent.diagnosis)
           /\ IsText(agent.recommendations)
           /\ Unparseable(agent.analysis) => agent.confidence = fallback

\* C23 as stated: for any analysis text _extract_confidence returns one of 0.50,
\* 0.70, 0.85, 0.90, a missing or unparseable confidence marker yields the low
\* confidence 0.50, and _extract_diagnosis and _extract_recommendations return strings.
C23_LowFallback == ExtractedWith(ConfidenceLow)

\* what holds instead: a missing or unparseable confidence marker yields 0.70, the
\* value returned for "medium"
C23_MediumFallback == ExtractedWith(ConfidenceMedium)

\* the log and the context of session s in the orchestrator's memory
SessionLog(s) == get_conversation("m1", s, None)

SessionContext(s) == get_patient_context("m1", s)

\* the nodes before the format step
BeforeFormat == {"route"} \cup Handlers

\* C24: process() is all-or-nothing for memory.  A call changes the memory only in
\* its format step, which appends the user query and then the assistant reply to
\* the log of the call's session, so a call that completes has appended exactly
\* these two messages; a call that fails in routing or in its handler is answered
\* with a processing failure (HTTP 500) and has left log and context as they were.
C24_AllOrNothing ==
    [][LET s == state.session_id
           log == SessionLog(s)
           after == SessionLog(s)'
       IN  /\ state'.node \in BeforeFormat \cup {"format"}
                  => UNCHANGED <<conversations, patient_contexts, lists, dicts>>
           /\ state.node \in BeforeFormat /\ state'.node = "failed"
                  => /\ UNCHANGED <<conversations, patient_contexts, lists, dicts>>
                     /\ response' # None
                     /\ response'[1].status_code = 500
           /\ state'.node = "format reply"
                  => /\ Len(after) = Len(log) + 1
                     /\ SubSeq(after, 1, Len(log)) = log
                     /\ after[Len(after)].role = "user"
                     /\ after[Len(after)].content = state'.user_query
           /\ state'.node = "END"
                  => /\ Len(after) = Len(log) + 1
                     /\ SubSeq(after, 1, Len(log)) = log
                     /\ after[Len(after)].role = "assistant"
                     /\ after[Len(after)].content = state'.final_response
                     /\ after[Len(log)].role = "user"
                     /\ after[Len(log)].content = state'.user_query
           /\ state.node = "END" /\ state'.node = "returned"
                  => /\ UNCHANGED <<conversations, patient_contexts, lists, dicts>>
                     /\ response'[1].status_code = 200]_vars

\* a call of a session failed in its handler after an earlier call of the session
\* completed: the log has the two messages of the earlier call only
C24_Witness ==
    /\ state.node = "failed"
    /\ state.query_type = "diagnosis"
    /\ response # None
    /\ response[1].status_code = 500
    /\ Len(SessionLog(state.session_id)) = 2
    /\ SessionLog(state.session_id)[1].role = "user"
    /\ SessionLog(state.session_id)[2].role = "assistant"
    /\ SessionContext(state.session_id)["diagnoses_received"] = <<>>

\* the last diagnosis record of the session of the call
LastDiagnosis ==
    LET records == SessionContext(state.session_id)["diagnoses_received"]
    IN  records[Len(records)]

\* C27: for every query the diagnosis agent handled, the confidence in the
\* QueryResponse is the confidence the agent extracted, which is also the one in
\* the diagnosis record saved for the session.
C27_ConfidenceFromAgent ==
    (state.node = "returned" /\ state.ran = "diagnosis")
        => /\ response[1].confidence = state.agent_response["confidence"]
           /\ Has(SessionContext(state.session_id), "diagnoses_received")
                  => response[1].confidence = LastDiagnosis.confidence

\* the context of session s has a category that is not empty
HasPatientData(s) ==
    \E category \in {"patient_info", "symptoms_mentioned", "diagnoses_received",
                     "medications_mentioned"} : Has(SessionContext(s), category)

\* C28: the prompt of the router carries a note on the previous patient context only
\* if the session has a context category that is not empty; after queries that
\* recorded no patient data the prompt of the next query carries no note.
C28_NoteOnlyWithData ==
    (state.node \in Handlers /\ state.context_note # None) => HasPatientData(state.session_id)

\* the document has the fields process_document gives a chunk
Processed(doc) == {"text", "source", "chunk_id", "total_chunks"} \subseteq DOMAIN doc

\* the fused list has one entry for the document: its score is the sum of the
\* contributions of the document's own ranks, and its record is the document
OwnEntry(doc) ==
    \E i \in 1..Len(hybrid_results) :
        /\ hybrid_results[i].document = doc
        /\ hybrid_results[i].score = RankSum(LexicalRanksOf(doc)) + RankSum(VectorRanksOf(doc))

\* C29: when the documents of the two result lists are chunks made by
\* process_document, of whatever files, every distinct document of the lists has
\* its own fused entry, scored by its own ranks only and returning that document.
C29_NeverMerged ==
    (rcall.op = "reciprocal_rank_fusion" /\ \A doc \in InputDocuments : Processed(doc))
        => \A doc \in InputDocuments : OwnEntry(doc)

\* C30: after any sequence of add_message, clear_session, export_session and
\* import_session of exported data, an add_message with role 'assistant' and
\* metadata that carries a diagnosis does not raise and records the diagnosis.
C30_AddAfterImport ==
    (last.op = "add_message" /\ last.role = "assistant" /\ last.metadata = Some(MetaDiagnosis))
        => /\ last.raised = "none"
           /\ LET records == get_patient_context(last.mem, last.session)["diagnoses_received"]
              IN  /\ records # <<>>
                  /\ records[Len(records)].diagnosis = MetaDiagnosis.diagnosis

\* the number of calls of session s admitted in the last `seconds` seconds
AdmittedWithin(s, seconds) ==
    Cardinality({i \in 1..Len(admitted[s]) : admitted[s][i] >= now - seconds})

\* C25: is_allowed admits 60 requests per minute and session: a call is turned away,
\* and with the per-minute message, only when 60 requests of its session were
\* admitted in the 60 seconds before it, so the first 60 calls of a fresh session
\* within one minute are all admitted.
C25_SixtyPerMinute ==
    /\ ~verdict.allowed => Len(admitted[verdict.session_id]) >= PerMinute
    /\ verdict.message = Some("per minute")
           => AdmittedWithin(verdict.session_id, Minute) >= PerMinute

\* C26: for every session, at most 500 calls are admitted in any 3600 seconds and at
\* most 5000 in any 86400 seconds.
C26_HourAndDay ==
    \A s \in Sessions :
        /\ AdmittedWithin(s, Hour - 1) <= PerHour
        /\ AdmittedWithin(s, Day - 1) <= PerDay

====
